---------------------------- MODULE Spec2Model ----------------------------
(***************************************************************************)
(* State-machine model of the cryptographic session engine of rust_core   *)
(* (crypto/mod.rs, key_management.rs, session.rs, encryption.rs), of its  *)
(* offline queue (sync/mod.rs), of its transports (transport/mod.rs), of  *)
(* its message store (storage/mod.rs, message/mod.rs) and of a session's  *)
(* 32-bit counters at the end of their range.  These share no state: each *)
(* has its own specification over its own variables, the others staying   *)
(* as Init leaves them.                                                    *)
(*                                                                         *)
(* The model is one process running the library: it owns the              *)
(* IDENTITY_KEYS slot and the SESSIONS table (the lazy_static globals).   *)
(* A thread executes one library call at a time.  A call is cut into      *)
(* steps at the places where it takes or gives back a lock on a global:   *)
(* whatever happens on the thread's own copies between two such places    *)
(* is invisible to the other threads and belongs to the step before it.   *)
(* The write lock of SESSIONS is held from the step that grants it to the  *)
(* step that ends the function; a read lock is taken and given back       *)
(* within one step, except the read guard of IDENTITY_KEYS that           *)
(* init_session keeps until it returns.                                    *)
(* The peers of the process are its environment: they hand it key         *)
(* bundles and byte strings.                                               *)
(*                                                                         *)
(* Key material is symbolic.  A key is the record [ss, path]: the         *)
(* X25519 shared secret it descends from (the unordered pair of the two   *)
(* private keys) and the list of HKDF expansions (label, salt) applied    *)
(* to it.  HKDF-SHA256 and AES-256-GCM are idealised: two keys are equal  *)
(* exactly when they were derived the same way, and an AEAD box opens     *)
(* exactly under the key that closed it.  Private keys drawn from the     *)
(* operating system's random source are fresh.                            *)
(***************************************************************************)
EXTENDS Integers, Sequences, FiniteSets, Bags, TLC

\* ------------------------------------------------------------------ bounds
\* generate_identity_keys calls the process may make
MaxGen == 2
\* init_session calls that may reach the insert
MaxInits == 2
\* encrypt_message and decrypt_message calls that may derive a key
MaxCalls == 2
\* generate_prekeys calls the process may make
MaxBatches == 2
\* the largest count asked of generate_prekeys
MaxPrekeys == 4
\* queue_message calls the process may make
MaxQueued == 3
\* attempts a queued message may reach
MaxAttempts == 2
\* start and stop calls the caller may make on its transports
MaxTransportCalls == 3
\* store_message calls the process may make
MaxStored == 3
\* derivations made on a session that is close to the end of its counters
MaxDerivations == 3

\* --------------------------------------------------------- program constants
KeyLen == 32
NonceLen == 12
TagLen == 16
MinCiphertextLen == NonceLen + TagLen

\* ------------------------------------------------------------------ universe
PeerIds == {"alice", "bob"}
\* two concurrent callers
Threads == {1, 2}
\* one caller
SeqThreads == {1}
NoThread == 1 - 1

\* &str arguments are valid UTF-8; the bytes a remote peer seals need not be
PlainTexts == {<< >>, <<72>>}
RawPayloads == PlainTexts \cup {<<255>>}
Nonces == {"n1", "n2"}
\* Vec<u8> lengths offered for a bundle's signed_prekey
PrekeyLens == {31, 32, 33}
\* lengths of byte strings that were sealed by nobody
JunkLens == {27, 28}

\* the private key the OS random source hands to the g-th generate_identity_keys
FreshPrivate(g) == <<"own", g>>
\* the signed prekey's private half of a remote peer
PeerPrivate == <<"peer", 1>>
NoPrivate == <<"none", 0>>

\* ------------------------------------------------------------------ errors
ErrOurKeysNotInitialized == "Our keys not initialized"
ErrKeysNotInitialized == "Keys not initialized"
ErrInvalidPrekeyLength == "Invalid prekey length"
ErrNoSession == "No session"
ErrCiphertextTooShort == "Ciphertext too short"
ErrDecryptionFailed == "Decryption failed: Error"
ErrInvalidUtf8 == "Invalid UTF-8"

\* ------------------------------------------------------------ key material
NoSalt == 0 - 1
NoKey == [ss |-> {}, path |-> << >>]

\* X25519PublicKey::from(&private): 32 bytes that determine the private key
X25519PublicKey(private) == [len |-> KeyLen, pk |-> private]

\* StaticSecret::diffie_hellman: DH(a, pub(b)) = DH(b, pub(a))
diffie_hellman(private, their_public) ==
    [ss |-> {private, their_public.pk}, path |-> << >>]

\* Hkdf::<Sha256>::new(salt, ikm).expand(info, ..): one output per
\* (salt, ikm, info)
hkdf_expand(salt, ikm, info) ==
    [ss |-> ikm.ss, path |-> Append(ikm.path, <<info, salt>>)]

\* counter.to_be_bytes(): four bytes, one value per counter
to_be_bytes(counter) == counter

\* ------------------------------------------------------------------ Session
\* inst is history, not a field of the struct: which install of the peer's
\* session this value descends from (0: none yet)
NoSession ==
    [recipient_id |-> "", root_key |-> NoKey, send_chain_key |-> NoKey,
     recv_chain_key |-> NoKey, send_counter |-> 0, recv_counter |-> 0,
     inst |-> 0]

\* faulty variant of Session::new: the send counter does not start at 0
Session_new_counter_kept(recipient_id, shared_secret) ==
    [recipient_id |-> recipient_id,
     root_key |-> hkdf_expand(NoSalt, shared_secret, "root_key"),
     send_chain_key |-> hkdf_expand(NoSalt, shared_secret, "send_chain"),
     recv_chain_key |-> hkdf_expand(NoSalt, shared_secret, "recv_chain"),
     send_counter |-> 1, recv_counter |-> 0, inst |-> 0]

\* faulty variant of Session::new: the recipient is not recorded
Session_new_unlabelled(recipient_id, shared_secret) ==
    [recipient_id |-> "",
     root_key |-> hkdf_expand(NoSalt, shared_secret, "root_key"),
     send_chain_key |-> hkdf_expand(NoSalt, shared_secret, "send_chain"),
     recv_chain_key |-> hkdf_expand(NoSalt, shared_secret, "recv_chain"),
     send_counter |-> 0, recv_counter |-> 0, inst |-> 0]

\* faulty variant of Session::new: the send chain is bound to the recipient
Session_new_bound(recipient_id, shared_secret) ==
    [recipient_id |-> recipient_id,
     root_key |-> hkdf_expand(NoSalt, shared_secret, "root_key"),
     send_chain_key |-> hkdf_expand(NoSalt, shared_secret,
                                    "send_chain" \o recipient_id),
     recv_chain_key |-> hkdf_expand(NoSalt, shared_secret, "recv_chain"),
     send_counter |-> 0, recv_counter |-> 0, inst |-> 0]

Session_new(recipient_id, shared_secret) ==
    [recipient_id |-> recipient_id,
     root_key |-> hkdf_expand(NoSalt, shared_secret, "root_key"),
     send_chain_key |-> hkdf_expand(NoSalt, shared_secret, "send_chain"),
     recv_chain_key |-> hkdf_expand(NoSalt, shared_secret, "recv_chain"),
     send_counter |-> 0,
     recv_counter |-> 0,
     inst |-> 0]

\* faulty variant of derive_message_key: the chain key is handed on as it is
derive_message_key_kept(chain_key, counter) ==
    <<hkdf_expand(to_be_bytes(counter), chain_key, "message_key"), chain_key>>

\* (message_key, new_chain_key)
derive_message_key(chain_key, counter) ==
    <<hkdf_expand(to_be_bytes(counter), chain_key, "message_key"),
      hkdf_expand(to_be_bytes(counter), chain_key, "chain_key")>>

\* faulty variant of derive_send_key: the chain does not move
derive_send_key_stuck(s) == s

\* faulty variant of derive_send_key: it advances the receive counter too
derive_send_key_both(s) ==
    [s EXCEPT !.send_chain_key =
                  derive_message_key(s.send_chain_key, s.send_counter)[2],
              !.send_counter = s.send_counter + 1,
              !.recv_counter = s.recv_counter + 1]

\* the session after derive_send_key; the key it returns is SendKeyOf
derive_send_key(s) ==
    [s EXCEPT !.send_chain_key = derive_message_key(s.send_chain_key, s.send_counter)[2],
              !.send_counter = s.send_counter + 1]

SendKeyOf(s) == derive_message_key(s.send_chain_key, s.send_counter)[1]

\* the session after derive_recv_key; the key it returns is RecvKeyOf
derive_recv_key(s) ==
    [s EXCEPT !.recv_chain_key = derive_message_key(s.recv_chain_key, s.recv_counter)[2],
              !.recv_counter = s.recv_counter + 1]

RecvKeyOf(s) == derive_message_key(s.recv_chain_key, s.recv_counter)[1]

\* faulty variant of HashMap::insert: the other entries are lost
insert_alone(table, key, value) == [k \in {key} |-> value]

\* HashMap::insert: the entry of key, whether new or replaced, is value
insert(table, key, value) ==
    [k \in (DOMAIN table) \cup {key} |-> IF k = key THEN value ELSE table[k]]

\* faulty variant of contains_key: any entry counts
contains_key_any(table, key) == DOMAIN table # {}

contains_key(table, key) == key \in DOMAIN table

EmptyTable == [k \in {} |-> NoSession]

\* ------------------------------------------------------------------ AEAD
\* nonce || ciphertext || tag as it travels; k, p and intact describe the
\* bytes: sealed under k over p, and not altered since
NoWire == [len |-> 0, nonce |-> "n1", k |-> NoKey, p |-> << >>, intact |-> FALSE]

\* faulty variant of the AEAD output: no tag is appended
aead_encrypt_no_tag(key, nonce, plaintext) ==
    [len |-> Len(plaintext), nonce |-> nonce, k |-> key, p |-> plaintext]

\* cipher.encrypt(nonce, plaintext): the plaintext's length plus the tag
aead_encrypt(key, nonce, plaintext) ==
    [len |-> Len(plaintext) + TagLen, nonce |-> nonce, k |-> key, p |-> plaintext]

\* nonce_bytes.to_vec() extended by the ciphertext
Seal(key, nonce, plaintext) ==
    LET c == aead_encrypt(key, nonce, plaintext)
    IN  [len |-> NonceLen + c.len, nonce |-> nonce, k |-> c.k, p |-> c.p,
         intact |-> TRUE]

\* one bit of the tag flipped
Tamper(w) == [w EXCEPT !.intact = FALSE]

Junk(n) == [len |-> n, nonce |-> "n1", k |-> NoKey, p |-> << >>, intact |-> FALSE]

\* faulty variant of the authentication: the tag is not verified
aead_decrypt_ok_unverified(key, w) == w.k = key

\* cipher.decrypt(nonce, encrypted), nonce and encrypted both cut from w
aead_decrypt_ok(key, w) == w.intact /\ w.k = key

\* faulty variant of the AEAD error: it tells what made the check fail
aead_decrypt_err_telling(key, w) ==
    IF w.k = key THEN "TagMismatch" ELSE "WrongKey"

\* the Err of cipher.decrypt: aead::Error is a unit struct, so there is one
\* value of it, printed "Error" by {:?}, whatever made the check fail
aead_decrypt_err(key, w) == "Error"

\* format!("Decryption failed: {:?}", e)
DecryptionFailed(e) == "Decryption failed: " \o e

\* faulty variant of String::from_utf8: every byte string passes
from_utf8_unchecked(bytes) == TRUE

\* String::from_utf8 on the byte values used here: ASCII, or a two-byte
\* sequence (lead 194..223, continuation 128..191)
RECURSIVE from_utf8_ok(_)
from_utf8_ok(bytes) ==
    IF bytes = << >> THEN TRUE
    ELSE IF bytes[1] < 128 THEN from_utf8_ok(Tail(bytes))
    ELSE IF /\ bytes[1] >= 194 /\ bytes[1] <= 223 /\ Len(bytes) >= 2
            /\ bytes[2] >= 128 /\ bytes[2] <= 191
         THEN from_utf8_ok(Tail(Tail(bytes)))
    ELSE FALSE

\* faulty variant of the initial identity slot: it is not empty
NoIdentity_present ==
    [some |-> TRUE,
     identity_keypair |-> NoPrivate,
     signed_prekey_private |-> NoPrivate,
     signed_prekey_public |-> X25519PublicKey(NoPrivate),
     signed_prekey_signature |-> [len |-> 0, signer |-> NoPrivate, over |-> NoPrivate]]

\* ------------------------------------------------------------------ identity
NoIdentity ==
    [some |-> FALSE, identity_keypair |-> NoPrivate,
     signed_prekey_private |-> NoPrivate,
     signed_prekey_public |-> X25519PublicKey(NoPrivate),
     signed_prekey_signature |-> [len |-> 0, signer |-> NoPrivate, over |-> NoPrivate]]

\* the IdentityKeys built from the g-th draw of the random source
NewIdentityKeys(g) ==
    [some |-> TRUE,
     identity_keypair |-> FreshPrivate(g),
     signed_prekey_private |-> FreshPrivate(g),
     signed_prekey_public |-> X25519PublicKey(FreshPrivate(g)),
     signed_prekey_signature |->
         [len |-> 64, signer |-> FreshPrivate(g), over |-> FreshPrivate(g)]]

\* PublicKeyBundle re-derived from stored keys
BundleOf(keys) ==
    [identity_public_key |-> [len |-> KeyLen, pk |-> keys.identity_keypair],
     signed_prekey |-> keys.signed_prekey_public,
     signature |-> keys.signed_prekey_signature,
     one_time_prekey |-> FALSE]

NoBundle == BundleOf(NoIdentity)

\* ------------------------------------------------------------ one-time prekeys
\* the private keys the OS random source may hand to generate_prekeys
PrekeyDraws == {<<"prekey", 1>>, <<"prekey", 2>>, <<"prekey", 3>>}

\* faulty variant of the identifier: numbering starts at 1
prekey_id_from_one(i) == i + 1

\* i as u32: the loop index itself (below 2^32)
prekey_id(i) == i

\* private.to_bytes(): [u8; 32]
to_bytes(private) == [len |-> KeyLen, sk |-> private]

\* the Vec after the loop for i in 0..count, the i-th pass drawing secrets[i+1]
generate_prekeys_loop(count, secrets) ==
    [j \in 1..count |->
        <<prekey_id(j - 1), X25519PublicKey(secrets[j]), to_bytes(secrets[j])>>]

NoBatch == [count |-> 0, keys |-> << >>]

\* ------------------------------------------------------------------ sync
MessageIds == {"m1", "m2"}
\* an id no message carries
UnknownIds == {"m9"}
Recipients == {"alice", "bob"}
Contents == {<<1>>}
\* chrono::Utc::now().timestamp()
Clock == {1700000000}

\* the &[String] arguments offered to clear_queue: up to two ids, repeats
\* and unknown ids included
IdLists ==
    {<< >>}
    \cup {<<a>> : a \in MessageIds \cup UnknownIds}
    \cup {<<a, b>> : a \in MessageIds, b \in MessageIds \cup UnknownIds}

\* QueuedMessage::new, now the clock's reading
QueuedMessage_new(id, recipient_id, encrypted_content, now) ==
    [id |-> id,
     recipient_id |-> recipient_id,
     encrypted_content |-> encrypted_content,
     created_at |-> now,
     attempts |-> 0]

NoMessage == QueuedMessage_new("", "", << >>, 0)

\* faulty variant of push_back: the message goes to the front
push_front(queue, message) == <<message>> \o queue

\* VecDeque::push_back
push_back(queue, message) == Append(queue, message)

\* faulty variant of contains: only the first id of the slice is looked at
contains_head(slice, x) == slice # << >> /\ slice[1] = x

\* <[String]>::contains
contains(slice, x) == \E i \in DOMAIN slice : slice[i] = x

\* queue.retain(|m| !message_ids.contains(&m.id)): front to back, the kept
\* elements stay in order
RECURSIVE retain(_, _)
retain(queue, message_ids) ==
    IF queue = << >> THEN << >>
    ELSE IF ~contains(message_ids, Head(queue).id)
         THEN <<Head(queue)>> \o retain(Tail(queue), message_ids)
         ELSE retain(Tail(queue), message_ids)

\* faulty variant of the loop of increment_attempts: no break
RECURSIVE for_each_match_increment(_, _)
for_each_match_increment(queue, message_id) ==
    IF queue = << >> THEN << >>
    ELSE <<IF Head(queue).id = message_id
           THEN [Head(queue) EXCEPT !.attempts = @ + 1]
           ELSE Head(queue)>>
         \o for_each_match_increment(Tail(queue), message_id)

\* the loop of increment_attempts: for msg in queue.iter_mut(), the first
\* msg with the id gets attempts += 1, then break
RECURSIVE first_match_increment(_, _)
first_match_increment(queue, message_id) ==
    IF queue = << >> THEN << >>
    ELSE IF Head(queue).id = message_id
         THEN <<[Head(queue) EXCEPT !.attempts = @ + 1]>> \o Tail(queue)
         ELSE <<Head(queue)>> \o first_match_increment(Tail(queue), message_id)

\* queue.iter().filter(|m| m.recipient_id == recipient_id).cloned().collect()
RECURSIVE filter_recipient(_, _)
filter_recipient(queue, recipient_id) ==
    IF queue = << >> THEN << >>
    ELSE IF Head(queue).recipient_id = recipient_id
         THEN <<Head(queue)>> \o filter_recipient(Tail(queue), recipient_id)
         ELSE filter_recipient(Tail(queue), recipient_id)

\* queue.iter().cloned().collect()
cloned(queue) == [i \in 1..Len(queue) |-> queue[i]]

\* VecDeque::len
len(queue) == Len(queue)

NoQueueCall ==
    [op |-> "none", ok |-> TRUE, message |-> NoMessage, ids |-> << >>,
     id |-> "", result |-> << >>, size |-> 0]

\* ------------------------------------------------------------------ transport
CLOUD == "org.merabriar.cloud"
LAN == "org.merabriar.lan"
BLUETOOTH == "org.merabriar.bluetooth"
TOR == "org.merabriar.tor"
TransportIds == {CLOUD, LAN, BLUETOOTH, TOR}

TransportStates == {"Active", "Enabling", "Disabled", "Unavailable"}

ErrLanNotImplemented == "LAN transport not yet implemented"
ErrBluetoothNotImplemented == "Bluetooth transport not yet implemented"
ErrTorNotImplemented == "Tor transport not yet implemented"

\* faulty variant of CloudTransport::new: the transport is born Active
CloudTransport_new_active == [id |-> CLOUD, state |-> "Active"]

\* each transport is the struct's state with the id its impl answers
CloudTransport_new == [id |-> CLOUD, state |-> "Disabled"]
LanTransport_new == [id |-> LAN, state |-> "Disabled"]
BluetoothTransport_new == [id |-> BLUETOOTH, state |-> "Disabled"]
TorTransport_new == [id |-> TOR, state |-> "Disabled"]

Transport_new(id) ==
    CASE id = CLOUD -> CloudTransport_new
      [] id = LAN -> LanTransport_new
      [] id = BLUETOOTH -> BluetoothTransport_new
      [] id = TOR -> TorTransport_new

\* faulty variant of LanTransport::start: the transport comes up
LanTransport_start_active(tr) == [tr EXCEPT !.state = "Active"]

CloudTransport_start(tr) == [tr EXCEPT !.state = "Active"]
LanTransport_start(tr) == [tr EXCEPT !.state = "Disabled"]
BluetoothTransport_start(tr) == [tr EXCEPT !.state = "Disabled"]
TorTransport_start(tr) == [tr EXCEPT !.state = "Disabled"]

CloudTransport_stop(tr) == [tr EXCEPT !.state = "Disabled"]
LanTransport_stop(tr) == [tr EXCEPT !.state = "Disabled"]
BluetoothTransport_stop(tr) == [tr EXCEPT !.state = "Disabled"]
TorTransport_stop(tr) == [tr EXCEPT !.state = "Disabled"]

\* dyn Transport: the call goes to the impl of the transport's struct
Transport_start(tr) ==
    CASE tr.id = CLOUD -> CloudTransport_start(tr)
      [] tr.id = LAN -> LanTransport_start(tr)
      [] tr.id = BLUETOOTH -> BluetoothTransport_start(tr)
      [] tr.id = TOR -> TorTransport_start(tr)

Transport_stop(tr) ==
    CASE tr.id = CLOUD -> CloudTransport_stop(tr)
      [] tr.id = LAN -> LanTransport_stop(tr)
      [] tr.id = BLUETOOTH -> BluetoothTransport_stop(tr)
      [] tr.id = TOR -> TorTransport_stop(tr)

\* the Err of send, "" for Ok(())
Transport_send(tr) ==
    CASE tr.id = CLOUD -> ""
      [] tr.id = LAN -> ErrLanNotImplemented
      [] tr.id = BLUETOOTH -> ErrBluetoothNotImplemented
      [] tr.id = TOR -> ErrTorNotImplemented

\* Transport::is_available, the default method no impl overrides
is_available(tr) == tr.state = "Active"

\* Option<Arc<dyn Transport>>
NoTransport == [id |-> "", state |-> "Disabled"]
None == [some |-> FALSE, value |-> NoTransport]
Some(tr) == [some |-> TRUE, value |-> tr]

\* faulty variant of find: the last available transport, not the first
RECURSIVE find_last(_)
find_last(transports) ==
    IF transports = << >> THEN None
    ELSE IF is_available(transports[Len(transports)])
         THEN Some(transports[Len(transports)])
         ELSE find_last(SubSeq(transports, 1, Len(transports) - 1))

\* transports.iter().find(|t| t.is_available()).cloned()
RECURSIVE find(_)
find(transports) ==
    IF transports = << >> THEN None
    ELSE IF is_available(Head(transports)) THEN Some(Head(transports))
    ELSE find(Tail(transports))

\* transports.iter().filter(|t| t.is_available()).cloned().collect()
RECURSIVE filter(_)
filter(transports) ==
    IF transports = << >> THEN << >>
    ELSE IF is_available(Head(transports))
         THEN <<Head(transports)>> \o filter(Tail(transports))
         ELSE filter(Tail(transports))

\* TransportManager::new
TransportManager_new ==
    [transports |-> <<CloudTransport_new, LanTransport_new,
                      BluetoothTransport_new, TorTransport_new>>]

\* the TransportManager values get_best_transport and
\* get_available_transports are defined on: the four transports in the
\* order of new(), each in any state
TransportManagers ==
    {[transports |->
        <<[CloudTransport_new EXCEPT !.state = c],
          [LanTransport_new EXCEPT !.state = l],
          [BluetoothTransport_new EXCEPT !.state = b],
          [TorTransport_new EXCEPT !.state = r]>>] :
        c \in TransportStates, l \in TransportStates,
        b \in TransportStates, r \in TransportStates}

NoTransportCall ==
    [op |-> "none", id |-> "", ok |-> TRUE, err |-> "", best |-> None,
     available |-> << >>]

\* ------------------------------------------------------------------ message
MessageStatuses == {"Pending", "Sent", "Delivered", "Read", "Failed"}

\* the &str arguments offered to MessageStatus::from_str: the five texts,
\* some of them in other letter cases, and texts that name no status
StatusTexts ==
    {"pending", "sent", "delivered", "read", "failed",
     "SENT", "Read", "Failed", "unknown", ""}

\* str::to_lowercase on StatusTexts
to_lowercase(s) ==
    CASE s = "SENT" -> "sent"
      [] s = "Read" -> "read"
      [] s = "Failed" -> "failed"
      [] OTHER -> s

\* faulty variant of from_str: the arm of "failed" is missing
from_str_without_failed(s) ==
    LET lower == to_lowercase(s)
    IN  CASE lower = "pending" -> "Pending"
          [] lower = "sent" -> "Sent"
          [] lower = "delivered" -> "Delivered"
          [] lower = "read" -> "Read"
          [] OTHER -> "Pending"

\* MessageStatus::from_str
from_str(s) ==
    LET lower == to_lowercase(s)
    IN  CASE lower = "pending" -> "Pending"
          [] lower = "sent" -> "Sent"
          [] lower = "delivered" -> "Delivered"
          [] lower = "read" -> "Read"
          [] lower = "failed" -> "Failed"
          [] OTHER -> "Pending"

\* <MessageStatus as ToString>::to_string
to_string(status) ==
    CASE status = "Pending" -> "pending"
      [] status = "Sent" -> "sent"
      [] status = "Delivered" -> "delivered"
      [] status = "Read" -> "read"
      [] status = "Failed" -> "failed"

\* ------------------------------------------------------------------ storage
StoredIds == {"msg-0", "msg-1", "msg-2"}
ConversationIds == {"conv-a", "conv-b"}
Timestamps == {1000, 1001}
\* the status of the message offered to store_message under an id
OfferedStatus(id) == IF id = "msg-0" THEN "Sent" ELSE "Failed"
\* the i32 arguments offered to get_messages
Limits == {-1, 0, 1, 2}
Offsets == {-1, 0, 1, 2}

ErrDatabaseNotInitialized == "Database not initialized"

\* the Message values offered to store_message
Messages ==
    {[id |-> id, conversation_id |-> c, sender_id |-> "alice",
      content |-> "Message", timestamp |-> ts, status |-> OfferedStatus(id)] :
        id \in StoredIds, c \in ConversationIds, ts \in Timestamps}

NoStoredMessage ==
    [id |-> "", conversation_id |-> "", sender_id |-> "", content |-> "",
     timestamp |-> 0, status |-> "Pending"]

\* the row store_message binds: params![.., message.status.to_string()]
RowOf(message) == [message EXCEPT !.status = to_string(message.status)]

\* the Message query_map builds from a row: status through from_str
MessageOf(row) == [row EXCEPT !.status = from_str(row.status)]

\* INSERT OR REPLACE INTO messages: id is the primary key, so a row with the
\* id is deleted and the new row is added last (rows stand in rowid order)
insert_or_replace(rows, row) ==
    SelectSeq(rows, LAMBDA r : r.id # row.id) \o <<row>>

\* WHERE conversation_id = ?1
where_conversation(rows, conversation_id) ==
    SelectSeq(rows, LAMBDA r : r.conversation_id = conversation_id)

\* a row put into rows already in descending timestamp order, behind the
\* rows that are not older
RECURSIVE put_descending(_, _)
put_descending(sorted, row) ==
    IF sorted = << >> THEN <<row>>
    ELSE IF Head(sorted).timestamp >= row.timestamp
         THEN <<Head(sorted)>> \o put_descending(Tail(sorted), row)
         ELSE <<row>> \o sorted

\* ORDER BY timestamp DESC; rows of one timestamp stay in rowid order
RECURSIVE order_by_timestamp_desc(_)
order_by_timestamp_desc(rows) ==
    IF rows = << >> THEN << >>
    ELSE put_descending(
             order_by_timestamp_desc(SubSeq(rows, 1, Len(rows) - 1)),
             rows[Len(rows)])

\* faulty variant of LIMIT ?2 OFFSET ?3: the offset is not applied
limit_offset_from_start(rows, limit, offset) ==
    IF limit < 0 \/ limit > Len(rows) THEN rows ELSE SubSeq(rows, 1, limit)

\* LIMIT ?2 OFFSET ?3 as SQLite evaluates them: a negative limit is no
\* limit, a negative offset is offset 0
limit_offset(rows, limit, offset) ==
    LET skip == IF offset < 0 THEN 0 ELSE offset
        rest == SubSeq(rows, skip + 1, Len(rows))
    IN  IF limit < 0 \/ limit > Len(rest) THEN rest ELSE SubSeq(rest, 1, limit)

\* the rows of the SELECT of get_messages
select_messages(rows, conversation_id, limit, offset) ==
    limit_offset(
        order_by_timestamp_desc(where_conversation(rows, conversation_id)),
        limit, offset)

\* query_map and collect: one Message per row, in the rows' order
query_map(rows) == [i \in 1..Len(rows) |-> MessageOf(rows[i])]

\* DB: no connection
NoConnection == [some |-> FALSE, messages |-> << >>]

NoStorageCall ==
    [op |-> "none", ok |-> TRUE, err |-> "", message |-> NoStoredMessage,
     conversation_id |-> "", limit |-> 0, offset |-> 0, result |-> << >>,
     text |-> "", status |-> "Pending"]

\* ------------------------------------------------------- u32 counters
\* session.rs: send_counter: u32, recv_counter: u32.  A u32 is written
\* <<high, low>>, two halves of 16 bits each, most significant first
Half == 65536

u32_ZERO == <<0, 0>>
u32_MAX == <<Half - 1, Half - 1>>

\* c + 1 modulo 2^32
wrapping_add_one(c) ==
    IF c[2] < Half - 1 THEN <<c[1], c[2] + 1>>
    ELSE <<(c[1] + 1) % Half, 0>>

\* the counter values a session is taken up at: the last three before the end
CounterStarts ==
    {<<Half - 1, Half - 3>>, <<Half - 1, Half - 2>>, u32_MAX}

\* `counter += 1` on a u32: with overflow checks (the default of debug and
\* test builds) the addition panics at u32::MAX and nothing is assigned;
\* without them (the default of release builds) it wraps
add_assign_one(counter, checks) ==
    [panicked |-> checks /\ counter = u32_MAX,
     value |-> IF checks /\ counter = u32_MAX THEN counter
               ELSE wrapping_add_one(counter)]

\* a Session some way down its chains: the chain keys are what they have
\* become by then
AgedChain(label) == [ss |-> {"aged"}, path |-> <<label>>]

AgedSession(send_counter, recv_counter) ==
    [recipient_id |-> "alice",
     root_key |-> AgedChain("root_key"),
     send_chain_key |-> AgedChain("send_chain"),
     recv_chain_key |-> AgedChain("recv_chain"),
     send_counter |-> send_counter,
     recv_counter |-> recv_counter]

NoDerivation ==
    [op |-> "none", panicked |-> FALSE, key |-> NoKey, counter |-> u32_ZERO]

\* ------------------------------------------------------------------ state
VARIABLES
    identity,   \* IDENTITY_KEYS
    sessions,   \* SESSIONS
    thr,        \* each thread: position in its call, its arguments and local copies
    last,       \* the call that returned in the latest step: what, arguments, result
    gen,        \* draws taken from the random source for identity keys
    epoch,      \* history: installs of a session per peer
    derived,    \* history: session write-backs by encrypt_message and decrypt_message
    sent,       \* history: bag of the key derivations of completed encrypt_message calls
    writer,     \* the thread that holds the write lock of SESSIONS, or NoThread
    issued,     \* history: the bundle the latest generate_identity_keys returned
    prekeys,    \* what the latest generate_prekeys was asked for and returned
    batches,    \* history: generate_prekeys calls made
    QUEUE,      \* sync QUEUE
    qlast,      \* the sync call made in the latest step: what, arguments, result
    qhistory,   \* history: the messages in the order queued, each with
                \* whether a clear_queue has named its id since
    manager,    \* a TransportManager
    plugin,     \* one transport of each kind, owned by the caller
    tlast,      \* the transport call made in the latest step
    tlog,       \* history: the start and stop calls made, in order
    DB,         \* storage DB: the connection, with the messages table behind it
    slast,      \* the storage or message call made in the latest step
    stored,     \* history: the Message each id was last stored with
    stores,     \* history: store_message calls that reached the INSERT
    overflow_checks,  \* whether the build checks integer overflow
    aged,       \* the session stored for a peer once its counters are close to u32::MAX
    alast,      \* the derivation attempted on aged in the latest step
    aderived    \* history: derivations attempted on aged

cryptoVars == <<identity, sessions, thr, last, gen, epoch, derived, sent, writer, issued>>
prekeyVars == <<prekeys, batches>>
syncVars == <<QUEUE, qlast, qhistory>>
transportVars == <<manager, plugin, tlast, tlog>>
storageVars == <<DB, slast, stored, stores>>
counterVars == <<overflow_checks, aged, alast, aderived>>

vars == <<identity, sessions, thr, last, gen, epoch, derived, sent, writer, issued,
          prekeys, batches, QUEUE, qlast, qhistory, manager, plugin, tlast, tlog,
          DB, slast, stored, stores, overflow_checks, aged, alast, aderived>>

IdleThread ==
    [pc |-> "idle", peer |-> "", session |-> NoSession, wire |-> NoWire,
     prekey_len |-> 0, keys |-> NoIdentity, bundle |-> NoBundle]

NoCall ==
    [op |-> "none", peer |-> "", ok |-> TRUE, err |-> "", prekey_len |-> 0,
     wire |-> NoWire, text |-> << >>, has |-> FALSE, bundle |-> NoBundle]

CryptoInit ==
    /\ identity = NoIdentity
    /\ sessions = EmptyTable
    /\ thr = [t \in Threads |-> IdleThread]
    /\ last = NoCall
    /\ gen = 0
    /\ epoch = [q \in PeerIds |-> 0]
    /\ derived = 0
    /\ sent = EmptyBag
    /\ writer = NoThread
    /\ issued = NoBundle

\* no generate_prekeys call yet
PrekeyInit ==
    /\ prekeys = NoBatch
    /\ batches = 0

\* QUEUE: VecDeque::new()
SyncInit ==
    /\ QUEUE = << >>
    /\ qlast = NoQueueCall
    /\ qhistory = << >>

\* the caller's transports, each from its new()
PluginInit ==
    /\ plugin = [id \in TransportIds |-> Transport_new(id)]
    /\ tlast = NoTransportCall
    /\ tlog = << >>

\* DB: RwLock::new(None), over an empty database file
StorageInit ==
    /\ DB = NoConnection
    /\ slast = NoStorageCall
    /\ stored = [id \in {} |-> NoStoredMessage]
    /\ stores = 0

\* a new Session in a build that checks overflow; no specification but
\* CounterSpec reads these
CounterIdle ==
    /\ overflow_checks = TRUE
    /\ aged = AgedSession(u32_ZERO, u32_ZERO)
    /\ alast = NoDerivation
    /\ aderived = 0

Init ==
    /\ CounterIdle
    /\ CryptoInit
    /\ PrekeyInit
    /\ SyncInit
    /\ PluginInit
    /\ manager = TransportManager_new
    /\ StorageInit

\* the record of a call that returns Ok / Err(e)
Ok(op, peer) == [NoCall EXCEPT !.op = op, !.peer = peer]
Err(op, peer, e) == [NoCall EXCEPT !.op = op, !.peer = peer, !.ok = FALSE, !.err = e]

\* threads that hold a read guard on IDENTITY_KEYS
IdentityReaders == {t \in Threads : thr[t].pc = "init_insert"}

\* ------------------------------------------------------------------ inputs
\* private keys whose public halves a caller may hold: a remote peer's
PublishedPrivates ==
    {PeerPrivate}

\* a key pair of somebody who is not the peer
StrangerPrivate == <<"stranger", 1>>

\* Ed25519 verification of a bundle's signature: made by the holder of the
\* bundle's identity key, over the bundle's signed prekey
Verifies(bundle) ==
    /\ bundle.signature.len = 64
    /\ bundle.signature.signer = bundle.identity_public_key.pk
    /\ bundle.signature.over = bundle.signed_prekey.pk

\* the PublicKeyBundle arguments offered to init_session: the signed prekey
\* has any of the lengths; the bundle is the peer's own, or carries the
\* peer's signed prekey under a stranger's identity key, with a signature
\* that does not verify and a one-time prekey
BundleInputs ==
    {[identity_public_key |-> [len |-> KeyLen, pk |-> k],
      signed_prekey |-> [len |-> n, pk |-> k],
      signature |-> [len |-> 64, signer |-> k, over |-> k],
      one_time_prekey |-> FALSE] :
        k \in PublishedPrivates, n \in PrekeyLens}
    \cup
    {[identity_public_key |-> [len |-> KeyLen, pk |-> StrangerPrivate],
      signed_prekey |-> [len |-> n, pk |-> k],
      signature |-> [len |-> 64, signer |-> k, over |-> StrangerPrivate],
      one_time_prekey |-> TRUE] :
        k \in PublishedPrivates, n \in PrekeyLens}

\* the shared secret a stored session was seeded from, as its peer knows it
ShareOf(session) == [ss |-> session.root_key.ss, path |-> << >>]

RECURSIVE AfterSends(_, _)
AfterSends(session, n) ==
    IF n = 0 THEN session ELSE AfterSends(derive_send_key(session), n - 1)

\* the key under which the peer of a stored session encrypts its (n+1)-th
\* message when it runs this library on the same shared secret
PeerSendKey(session, n) ==
    SendKeyOf(AfterSends(Session_new("me", ShareOf(session)), n))

\* the byte strings offered to decrypt_message(sender): bytes nobody sealed;
\* the next message of a sender that runs this library (its (n+1)-th, when
\* n were received); what a sender holding our receive chain would seal;
\* and that with a bit flipped
WireInputs(sender) ==
    {Junk(n) : n \in JunkLens}
    \cup (IF sender \in DOMAIN sessions
          THEN LET s == sessions[sender]
               IN  {Seal(PeerSendKey(s, s.recv_counter), nonce, p) :
                        nonce \in Nonces, p \in PlainTexts}
                   \cup {Seal(RecvKeyOf(s), nonce, p) :
                            nonce \in Nonces, p \in RawPayloads}
                   \cup {Tamper(Seal(RecvKeyOf(s), nonce, << >>)) : nonce \in Nonces}
          ELSE {})

\* ------------------------------------------------------------------ actions
\* the thread goes on inside its call
Continue(t, local) ==
    /\ thr' = [thr EXCEPT ![t] = local]
    /\ last' = NoCall

\* the thread's call returns
Return(t, call) ==
    /\ thr' = [thr EXCEPT ![t] = IdleThread]
    /\ last' = call

\* faulty variant of the identity check: absent keys pass
is_some_always(option) == TRUE

\* faulty variant of the prekey conversion: longer inputs pass
try_into_ok_at_least(bytes) == bytes.len >= KeyLen

\* faulty variant of the store: a slot that holds keys keeps them
replace_if_none(slot, keys) == IF slot.some THEN slot ELSE keys

\* key_management.rs generate_identity_keys: *keys = Some(identity_keys)
replace(slot, keys) == keys

\* key_management.rs generate_identity_keys: the KeyBundle it returns, which
\* has no one_time_prekey field (shown here as absent)
KeyBundleOf(keys) ==
    [identity_public_key |-> [len |-> KeyLen, pk |-> keys.identity_keypair],
     signed_prekey |-> keys.signed_prekey_public,
     signature |-> keys.signed_prekey_signature,
     one_time_prekey |-> FALSE]

\* faulty variant of the release: the guard is leaked
drop_forgotten(guard) == guard

\* session.rs init_session, update_session: the write guard of SESSIONS is
\* dropped at the end of the function
drop(guard) == NoThread

\* session.rs init_session, update_session: SESSIONS.write() is granted
\* when no other thread holds the lock
write(t) ==
    /\ thr[t].pc \in {"init_insert", "enc_update", "dec_update"}
    /\ writer = NoThread
    /\ writer' = t
    /\ last' = NoCall
    /\ UNCHANGED <<identity, sessions, thr, gen, epoch, derived, sent, issued,
                   prekeyVars, syncVars, transportVars, storageVars, counterVars>>

\* key_management.rs, session.rs: the Option read from IDENTITY_KEYS holds keys
is_some(option) == option.some

\* session.rs init_session: recipient_keys.signed_prekey converts to [u8; 32]
try_into_ok(bytes) == bytes.len = KeyLen

\* key_management.rs generate_identity_keys up to the point where it asks
\* for the write lock of IDENTITY_KEYS: the keys are drawn and signed
generate_identity_keys_begin(t) ==
    /\ thr[t].pc = "idle"
    /\ gen < MaxGen
    /\ gen' = gen + 1
    /\ Continue(t, [IdleThread EXCEPT !.pc = "gen_store",
                                      !.keys = NewIdentityKeys(gen + 1)])
    /\ UNCHANGED <<identity, sessions, epoch, derived, sent, writer, issued,
                   prekeyVars, syncVars, transportVars, storageVars, counterVars>>

\* key_management.rs generate_identity_keys: *keys = Some(..) under the
\* write lock of IDENTITY_KEYS, which waits for every read guard, then the
\* KeyBundle
generate_identity_keys_store(t) ==
    LET keys == thr[t].keys
    IN  /\ thr[t].pc = "gen_store"
        /\ IdentityReaders = {}
        /\ identity' = replace(identity, keys)
        /\ issued' = KeyBundleOf(keys)
        /\ Return(t, [Ok("generate_identity_keys", "") EXCEPT
                         !.bundle = KeyBundleOf(keys)])
        /\ UNCHANGED <<sessions, gen, epoch, derived, sent, writer,
                       prekeyVars, syncVars, transportVars, storageVars, counterVars>>

\* key_management.rs get_public_key_bundle
get_public_key_bundle(t) ==
    /\ thr[t].pc = "idle"
    /\ Return(t, IF is_some(identity)
                 THEN [Ok("get_public_key_bundle", "") EXCEPT
                          !.bundle = BundleOf(identity)]
                 ELSE Err("get_public_key_bundle", "", ErrKeysNotInitialized))
    /\ UNCHANGED <<identity, sessions, gen, epoch, derived, sent, writer, issued,
                   prekeyVars, syncVars, transportVars, storageVars, counterVars>>

\* faulty variant of the key agreement: the bundle's identity key is used
their_prekey_identity(recipient_keys) == recipient_keys.identity_public_key

\* session.rs init_session: the only field of the bundle that is read
their_prekey(recipient_keys) == recipient_keys.signed_prekey

\* init_session calls that reached the insert, or are about to
InitCount ==
    epoch["alice"] + epoch["bob"]
    + Cardinality({t \in Threads : thr[t].pc = "init_insert"})

\* session.rs init_session up to the point where it asks for the write lock
\* of SESSIONS; the read guard our_keys is held from here to the return
init_session_begin(t) ==
    \E recipient_id \in PeerIds, recipient_keys \in BundleInputs :
        LET our_keys == identity
            shared_secret ==
                diffie_hellman(our_keys.signed_prekey_private,
                               their_prekey(recipient_keys))
            call == [Ok("init_session", recipient_id) EXCEPT
                        !.prekey_len = recipient_keys.signed_prekey.len,
                        !.bundle = recipient_keys]
        IN  /\ thr[t].pc = "idle"
            /\ IF ~is_some(our_keys)
               THEN Return(t, [call EXCEPT !.ok = FALSE,
                                           !.err = ErrOurKeysNotInitialized])
               ELSE IF ~try_into_ok(their_prekey(recipient_keys))
               THEN Return(t, [call EXCEPT !.ok = FALSE,
                                           !.err = ErrInvalidPrekeyLength])
               ELSE /\ InitCount < MaxInits
                    /\ Continue(t, [IdleThread EXCEPT
                           !.pc = "init_insert",
                           !.peer = recipient_id,
                           !.prekey_len = recipient_keys.signed_prekey.len,
                           !.bundle = recipient_keys,
                           !.session = Session_new(recipient_id, shared_secret)])
            /\ UNCHANGED <<identity, sessions, gen, epoch, derived, sent, writer, issued,
                           prekeyVars, syncVars, transportVars, storageVars, counterVars>>

\* session.rs init_session: sessions.insert under the write lock, Ok(())
init_session_insert(t) ==
    LET recipient_id == thr[t].peer
        session == [thr[t].session EXCEPT !.inst = epoch[recipient_id] + 1]
    IN  /\ thr[t].pc = "init_insert"
        /\ writer = t
        /\ writer' = drop(writer)
        /\ sessions' = insert(sessions, recipient_id, session)
        /\ epoch' = [epoch EXCEPT ![recipient_id] = @ + 1]
        /\ Return(t, [Ok("init_session", recipient_id) EXCEPT
                         !.prekey_len = thr[t].prekey_len,
                         !.bundle = thr[t].bundle])
        /\ UNCHANGED <<identity, gen, derived, sent, issued,
                       prekeyVars, syncVars, transportVars, storageVars, counterVars>>

\* session.rs has_session
has_session(t) ==
    \E recipient_id \in PeerIds :
        /\ thr[t].pc = "idle"
        /\ writer = NoThread
        /\ Return(t, [Ok("has_session", recipient_id) EXCEPT
                         !.has = contains_key(sessions, recipient_id)])
        /\ UNCHANGED <<identity, sessions, gen, epoch, derived, sent, writer, issued,
                       prekeyVars, syncVars, transportVars, storageVars, counterVars>>

\* encrypt_message and decrypt_message calls that derived a key: those that
\* wrote the session back, and those about to
DeriveCount ==
    derived
    + Cardinality({t \in Threads : thr[t].pc \in {"enc_update", "dec_update"}})

\* faulty variant of the length check: one byte too lenient
too_short_lenient(ciphertext) == ciphertext.len < MinCiphertextLen - 1

\* faulty variant of the session lookup: any stored session will do
get_ok_any(table, recipient_id) == DOMAIN table # {}

\* faulty variant of the length check: the shortest valid message fails
too_short_inclusive(ciphertext) == ciphertext.len <= MinCiphertextLen

\* session.rs get_session_mut: sessions.get(recipient_id) finds a session
get_ok(table, recipient_id) == recipient_id \in DOMAIN table

\* encryption.rs decrypt_message: ciphertext.len() < 12 + 16
too_short(ciphertext) == ciphertext.len < MinCiphertextLen

\* session.rs get_session_mut: a clone of the stored session, taken under
\* the read lock of SESSIONS
get_session_mut(table, recipient_id) ==
    IF recipient_id \in DOMAIN table THEN table[recipient_id] ELSE NoSession

\* session.rs update_session: the clone is inserted under its own recipient_id
update_session(table, session) == insert(table, session.recipient_id, session)

\* encryption.rs encrypt_message from get_session_mut to the encrypted
\* bytes: everything after the clone works on the caller's copies
encrypt_message_begin(t) ==
    \E recipient_id \in PeerIds, plaintext \in PlainTexts, nonce_bytes \in Nonces :
        /\ thr[t].pc = "idle"
        /\ writer = NoThread
        /\ IF ~get_ok(sessions, recipient_id)
           THEN Return(t, Err("encrypt_message", recipient_id, ErrNoSession))
           ELSE LET session == get_session_mut(sessions, recipient_id)
                    message_key == SendKeyOf(session)
                IN  /\ DeriveCount < MaxCalls
                    /\ Continue(t, [IdleThread EXCEPT
                           !.pc = "enc_update",
                           !.peer = recipient_id,
                           !.session = derive_send_key(session),
                           !.wire = Seal(message_key, nonce_bytes, plaintext)])
        /\ UNCHANGED <<identity, sessions, gen, epoch, derived, sent, writer, issued,
                       prekeyVars, syncVars, transportVars, storageVars, counterVars>>

\* encryption.rs encrypt_message: update_session, then the result
encrypt_message_update(t) ==
    LET me == thr[t]
    IN  /\ me.pc = "enc_update"
        /\ writer = t
        /\ writer' = drop(writer)
        /\ sessions' = update_session(sessions, me.session)
        /\ sent' = sent (+) SetToBag({
               [peer |-> me.peer, inst |-> me.session.inst,
                counter |-> me.session.send_counter - 1, key |-> me.wire.k]})
        /\ derived' = derived + 1
        /\ Return(t, [Ok("encrypt_message", me.peer) EXCEPT !.wire = me.wire])
        /\ UNCHANGED <<identity, gen, epoch, issued,
                       prekeyVars, syncVars, transportVars, storageVars, counterVars>>

\* encryption.rs decrypt_message from the length check to cipher.decrypt
decrypt_message_begin(t) ==
    \E sender_id \in PeerIds :
      \E ciphertext \in WireInputs(sender_id) :
        LET call == [Ok("decrypt_message", sender_id) EXCEPT !.wire = ciphertext]
        IN  /\ thr[t].pc = "idle"
            /\ IF too_short(ciphertext)
               THEN Return(t, [call EXCEPT !.ok = FALSE,
                                           !.err = ErrCiphertextTooShort])
               ELSE IF ~get_ok(sessions, sender_id)
               THEN /\ writer = NoThread
                    /\ Return(t, [call EXCEPT !.ok = FALSE, !.err = ErrNoSession])
               ELSE LET session == get_session_mut(sessions, sender_id)
                        message_key == RecvKeyOf(session)
                    IN  /\ writer = NoThread
                        /\ DeriveCount < MaxCalls
                        /\ IF ~aead_decrypt_ok(message_key, ciphertext)
                           THEN Return(t, [call EXCEPT !.ok = FALSE,
                                    !.err = DecryptionFailed(
                                        aead_decrypt_err(message_key, ciphertext))])
                           ELSE Continue(t, [IdleThread EXCEPT
                                    !.pc = "dec_update",
                                    !.peer = sender_id,
                                    !.session = derive_recv_key(session),
                                    !.wire = ciphertext])
            /\ UNCHANGED <<identity, sessions, gen, epoch, derived, sent, writer, issued,
                           prekeyVars, syncVars, transportVars, storageVars, counterVars>>

\* encryption.rs decrypt_message: update_session, then String::from_utf8
decrypt_message_update(t) ==
    LET me == thr[t]
        call == [Ok("decrypt_message", me.peer) EXCEPT !.wire = me.wire]
    IN  /\ me.pc = "dec_update"
       /\ writer = t
       /\ writer' = drop(writer)
        /\ sessions' = update_session(sessions, me.session)
        /\ Return(t, IF from_utf8_ok(me.wire.p)
                     THEN [call EXCEPT !.text = me.wire.p]
                     ELSE [call EXCEPT !.ok = FALSE, !.err = ErrInvalidUtf8])
        /\ derived' = derived + 1
        /\ UNCHANGED <<identity, gen, epoch, sent, issued,
                       prekeyVars, syncVars, transportVars, storageVars, counterVars>>

\* ------------------------------------------------------------ specifications
Step(t) ==
    \/ generate_identity_keys_begin(t)
    \/ generate_identity_keys_store(t)
    \/ write(t)
    \/ get_public_key_bundle(t)
    \/ init_session_begin(t)
    \/ init_session_insert(t)
    \/ has_session(t)
    \/ encrypt_message_begin(t)
    \/ encrypt_message_update(t)
    \/ decrypt_message_begin(t)
    \/ decrypt_message_update(t)

\* two concurrent callers
Next == \E t \in Threads : Step(t)

Spec == Init /\ [][Next]_vars

\* calls whose arguments are of one shape: one peer, the empty plaintext,
\* one nonce; every branch of every operation is still taken, and the locks
\* a call takes do not depend on what is left out
PlainArguments ==
    /\ \A t \in Threads :
           /\ thr[t].peer \in {"", "alice"}
           /\ thr[t].wire.nonce = "n1"
           /\ thr[t].wire.p = << >>
    /\ last.peer \in {"", "alice"}
    /\ last.wire.nonce = "n1"
    /\ last.wire.p = << >>
    /\ last.prekey_len # 33
    /\ \A t \in Threads : ~thr[t].bundle.one_time_prekey
    /\ ~last.bundle.one_time_prekey

FairStep(t) ==
    \/ generate_identity_keys_begin(t) /\ PlainArguments'
    \/ generate_identity_keys_store(t) /\ PlainArguments'
    \/ write(t) /\ PlainArguments'
    \/ get_public_key_bundle(t) /\ PlainArguments'
    \/ init_session_begin(t) /\ PlainArguments'
    \/ init_session_insert(t) /\ PlainArguments'
    \/ has_session(t) /\ PlainArguments'
    \/ encrypt_message_begin(t) /\ PlainArguments'
    \/ encrypt_message_update(t) /\ PlainArguments'
    \/ decrypt_message_begin(t) /\ PlainArguments'
    \/ decrypt_message_update(t) /\ PlainArguments'

FairNext == \E t \in Threads : FairStep(t)

\* two concurrent callers under a fair scheduler: a thread that can take
\* its next step is not passed over forever
FairSpec == Init /\ [][FairNext]_vars /\ \A t \in Threads : WF_vars(FairStep(t))

\* one caller: every call returns before the next one starts
SeqNext == \E t \in SeqThreads : Step(t)

SeqSpec == Init /\ [][SeqNext]_vars

\* ------------------------------------------------- one-time prekeys: action
\* key_management.rs generate_prekeys: count keys from the random source;
\* it reads and writes no global
generate_prekeys ==
    \E count \in 0..MaxPrekeys :
      \E secrets \in [1..count -> PrekeyDraws] :
        /\ batches < MaxBatches
        /\ batches' = batches + 1
        /\ prekeys' = [count |-> count,
                       keys |-> generate_prekeys_loop(count, secrets)]
        /\ UNCHANGED <<cryptoVars, syncVars, transportVars, storageVars, counterVars>>

PrekeyNext == generate_prekeys

\* the callers of generate_prekeys
PrekeySpec == Init /\ [][PrekeyNext]_vars

\* ------------------------------------------------------------ sync: actions
\* Every function of sync holds the lock of QUEUE from its first statement
\* to its return, so each call is one step, whatever the number of callers.

\* qhistory after a clear_queue that names ids
Cleared(history, ids) ==
    [i \in 1..Len(history) |->
        [history[i] EXCEPT !.cleared =
            @ \/ \E j \in DOMAIN ids : ids[j] = history[i].message.id]]

queue_message ==
    \E id \in MessageIds, recipient_id \in Recipients,
       encrypted_content \in Contents, now \in Clock :
        LET message == QueuedMessage_new(id, recipient_id, encrypted_content, now)
        IN  /\ Len(qhistory) < MaxQueued
            /\ QUEUE' = push_back(QUEUE, message)
            /\ qhistory' = Append(qhistory, [message |-> message, cleared |-> FALSE])
            /\ qlast' = [NoQueueCall EXCEPT !.op = "queue_message",
                                            !.message = message]
            /\ UNCHANGED <<cryptoVars, prekeyVars, transportVars, storageVars, counterVars>>

get_queued_messages ==
    /\ qlast' = [NoQueueCall EXCEPT !.op = "get_queued_messages",
                                    !.result = cloned(QUEUE)]
    /\ UNCHANGED <<QUEUE, qhistory, cryptoVars, prekeyVars, transportVars, storageVars, counterVars>>

get_queued_for_recipient ==
    \E recipient_id \in Recipients :
        /\ qlast' = [NoQueueCall EXCEPT
                        !.op = "get_queued_for_recipient",
                        !.id = recipient_id,
                        !.result = filter_recipient(QUEUE, recipient_id)]
        /\ UNCHANGED <<QUEUE, qhistory, cryptoVars, prekeyVars, transportVars, storageVars, counterVars>>

clear_queue ==
    \E message_ids \in IdLists :
        /\ QUEUE' = retain(QUEUE, message_ids)
        /\ qhistory' = Cleared(qhistory, message_ids)
        /\ qlast' = [NoQueueCall EXCEPT !.op = "clear_queue", !.ids = message_ids]
        /\ UNCHANGED <<cryptoVars, prekeyVars, transportVars, storageVars, counterVars>>

\* attempts is a u32; the guard keeps it below MaxAttempts
increment_attempts ==
    \E message_id \in MessageIds \cup UnknownIds :
        /\ \A i \in DOMAIN QUEUE :
               QUEUE[i].id = message_id => QUEUE[i].attempts < MaxAttempts
        /\ QUEUE' = first_match_increment(QUEUE, message_id)
        /\ qlast' = [NoQueueCall EXCEPT !.op = "increment_attempts",
                                        !.id = message_id]
        /\ UNCHANGED <<qhistory, cryptoVars, prekeyVars, transportVars, storageVars, counterVars>>

queue_size ==
    /\ qlast' = [NoQueueCall EXCEPT !.op = "queue_size", !.size = len(QUEUE)]
    /\ UNCHANGED <<QUEUE, qhistory, cryptoVars, prekeyVars, transportVars, storageVars, counterVars>>

SyncNext ==
    \/ queue_message
    \/ get_queued_messages
    \/ get_queued_for_recipient
    \/ clear_queue
    \/ increment_attempts
    \/ queue_size

\* the callers of sync
SyncSpec == Init /\ [][SyncNext]_vars

\* ------------------------------------------------------- transport: actions
\* Transport::start on a transport the caller owns (&mut self)
start ==
    \E id \in TransportIds :
        /\ Len(tlog) < MaxTransportCalls
        /\ plugin' = [plugin EXCEPT ![id] = Transport_start(@)]
        /\ tlog' = Append(tlog, <<"start", id>>)
        /\ tlast' = [NoTransportCall EXCEPT !.op = "start", !.id = id]
        /\ UNCHANGED <<manager, cryptoVars, prekeyVars, syncVars, storageVars, counterVars>>

\* Transport::stop on a transport the caller owns
stop ==
    \E id \in TransportIds :
        /\ Len(tlog) < MaxTransportCalls
        /\ plugin' = [plugin EXCEPT ![id] = Transport_stop(@)]
        /\ tlog' = Append(tlog, <<"stop", id>>)
        /\ tlast' = [NoTransportCall EXCEPT !.op = "stop", !.id = id]
        /\ UNCHANGED <<manager, cryptoVars, prekeyVars, syncVars, storageVars, counterVars>>

\* Transport::send on a transport the caller owns
send ==
    \E id \in TransportIds :
        /\ tlast' = [NoTransportCall EXCEPT
                        !.op = "send", !.id = id,
                        !.ok = (Transport_send(plugin[id]) = ""),
                        !.err = Transport_send(plugin[id])]
        /\ UNCHANGED <<manager, plugin, tlog, cryptoVars, prekeyVars, syncVars, storageVars, counterVars>>

\* TransportManager::get_best_transport
get_best_transport ==
    /\ tlast' = [NoTransportCall EXCEPT !.op = "get_best_transport",
                                        !.best = find(manager.transports)]
    /\ UNCHANGED <<manager, plugin, tlog, cryptoVars, prekeyVars, syncVars, storageVars, counterVars>>

\* TransportManager::get_available_transports
get_available_transports ==
    /\ tlast' = [NoTransportCall EXCEPT !.op = "get_available_transports",
                                        !.available = filter(manager.transports)]
    /\ UNCHANGED <<manager, plugin, tlog, cryptoVars, prekeyVars, syncVars, storageVars, counterVars>>

TransportNext ==
    \/ start
    \/ stop
    \/ send
    \/ get_best_transport
    \/ get_available_transports

\* a caller with its own transports and a TransportManager from new()
TransportSpec == Init /\ [][TransportNext]_vars

\* the two selections of TransportManager as functions of the manager's
\* value: the manager is any of TransportManagers
SelectInit ==
    /\ CounterIdle
    /\ CryptoInit
    /\ PrekeyInit
    /\ SyncInit
    /\ PluginInit
    /\ manager \in TransportManagers
    /\ StorageInit

SelectNext ==
    \/ get_best_transport
    \/ get_available_transports

SelectSpec == SelectInit /\ [][SelectNext]_vars

\* --------------------------------------------------------- storage: actions
\* Each function of storage holds a lock of DB from its first statement to
\* its return and runs one SQL statement, so each call is one step.  The
\* sessions table (store_session, get_session) is apart from the messages
\* table and is left out.

\* storage.rs init: the tables are created if they do not exist, the
\* connection is stored
storage_init ==
    /\ DB' = [DB EXCEPT !.some = TRUE]
    /\ slast' = [NoStorageCall EXCEPT !.op = "init"]
    /\ UNCHANGED <<stored, stores, cryptoVars, prekeyVars, syncVars, transportVars, counterVars>>

store_message ==
    \E message \in Messages :
        LET call == [NoStorageCall EXCEPT !.op = "store_message",
                                          !.message = message]
        IN  IF ~DB.some
            THEN /\ slast' = [call EXCEPT !.ok = FALSE,
                                          !.err = ErrDatabaseNotInitialized]
                 /\ UNCHANGED <<DB, stored, stores, cryptoVars, prekeyVars,
                                syncVars, transportVars, counterVars>>
            ELSE /\ stores < MaxStored
                 /\ stores' = stores + 1
                 /\ DB' = [DB EXCEPT !.messages =
                              insert_or_replace(@, RowOf(message))]
                 /\ stored' = [id \in (DOMAIN stored) \cup {message.id} |->
                                  IF id = message.id THEN message ELSE stored[id]]
                 /\ slast' = call
                 /\ UNCHANGED <<cryptoVars, prekeyVars, syncVars, transportVars, counterVars>>

get_messages ==
    \E conversation_id \in ConversationIds, limit \in Limits, offset \in Offsets :
        LET call == [NoStorageCall EXCEPT !.op = "get_messages",
                                          !.conversation_id = conversation_id,
                                          !.limit = limit, !.offset = offset]
        IN  /\ slast' =
                 IF ~DB.some
                 THEN [call EXCEPT !.ok = FALSE, !.err = ErrDatabaseNotInitialized]
                 ELSE [call EXCEPT !.result = query_map(
                          select_messages(DB.messages, conversation_id,
                                          limit, offset))]
            /\ UNCHANGED <<DB, stored, stores, cryptoVars, prekeyVars, syncVars,
                           transportVars, counterVars>>

\* message.rs MessageStatus::from_str called on a text
MessageStatus_from_str ==
    \E s \in StatusTexts :
        /\ slast' = [NoStorageCall EXCEPT !.op = "from_str", !.text = s,
                                          !.status = from_str(s)]
        /\ UNCHANGED <<DB, stored, stores, cryptoVars, prekeyVars, syncVars,
                       transportVars, counterVars>>

StorageNext ==
    \/ storage_init
    \/ store_message
    \/ get_messages
    \/ MessageStatus_from_str

\* the callers of storage and of MessageStatus
StorageSpec == Init /\ [][StorageNext]_vars

\* ------------------------------------------------------- counters: actions
\* session.rs Session::derive_send_key on a session near the end of its
\* send counter: derive_message_key, the chain key is assigned, then
\* `self.send_counter += 1`; a panic there unwinds out of the caller
\* (encrypt_message), whose update_session is not reached, so the stored
\* session stays as it was
Session_derive_send_key ==
    LET derivation == derive_message_key(aged.send_chain_key, aged.send_counter)
        sum == add_assign_one(aged.send_counter, overflow_checks)
    IN  /\ aderived < MaxDerivations
        /\ aged' = IF sum.panicked THEN aged
                   ELSE [aged EXCEPT !.send_chain_key = derivation[2],
                                     !.send_counter = sum.value]
        /\ alast' = [op |-> "derive_send_key", panicked |-> sum.panicked,
                     key |-> IF sum.panicked THEN NoKey ELSE derivation[1],
                     counter |-> aged.send_counter]
        /\ aderived' = aderived + 1
        /\ UNCHANGED <<overflow_checks, cryptoVars, prekeyVars, syncVars,
                       transportVars, storageVars>>

\* session.rs Session::derive_recv_key, likewise (caller: decrypt_message)
Session_derive_recv_key ==
    LET derivation == derive_message_key(aged.recv_chain_key, aged.recv_counter)
        sum == add_assign_one(aged.recv_counter, overflow_checks)
    IN  /\ aderived < MaxDerivations
        /\ aged' = IF sum.panicked THEN aged
                   ELSE [aged EXCEPT !.recv_chain_key = derivation[2],
                                     !.recv_counter = sum.value]
        /\ alast' = [op |-> "derive_recv_key", panicked |-> sum.panicked,
                     key |-> IF sum.panicked THEN NoKey ELSE derivation[1],
                     counter |-> aged.recv_counter]
        /\ aderived' = aderived + 1
        /\ UNCHANGED <<overflow_checks, cryptoVars, prekeyVars, syncVars,
                       transportVars, storageVars>>

\* the session is taken up at counters close to the end, in either build
CounterInit ==
    /\ overflow_checks \in BOOLEAN
    /\ \E s \in CounterStarts, r \in CounterStarts : aged = AgedSession(s, r)
    /\ alast = NoDerivation
    /\ aderived = 0
    /\ CryptoInit
    /\ PrekeyInit
    /\ SyncInit
    /\ PluginInit
    /\ manager = TransportManager_new
    /\ StorageInit

CounterNext ==
    \/ Session_derive_send_key
    \/ Session_derive_recv_key

CounterSpec == CounterInit /\ [][CounterNext]_vars

\* ------------------------------------------------------------------ claims
\* completed encrypt_message calls that read install inst of peer's session
SentOn(peer, inst) ==
    LET es == {e \in BagToSet(sent) : e.peer = peer /\ e.inst = inst}
    IN  BagCardinality([e \in es |-> CopiesIn(e, sent)])

\* C1: no two completed encrypt_message calls on the same session consumed
\* the same send-counter value.
C1_DistinctSendCounters ==
    \A e \in BagToSet(sent) :
        /\ CopiesIn(e, sent) = 1
        /\ \A f \in BagToSet(sent) :
               (f # e /\ f.peer = e.peer /\ f.inst = e.inst) => f.counter # e.counter

\* C2: once k encrypt_message calls on a peer have completed since its
\* session was installed, the stored send counter of that session is k.
C2_CounterCountsCompletedCalls ==
    \A p \in DOMAIN sessions :
        sessions[p].inst = epoch[p] =>
            sessions[p].send_counter = SentOn(p, sessions[p].inst)

\* C3: no two completed encrypt_message calls encrypted under the same
\* message key.
C3_MessageKeyNeverReused ==
    \A e \in BagToSet(sent) :
        /\ CopiesIn(e, sent) = 1
        /\ \A f \in BagToSet(sent) : f # e => f.key # e.key

\* C4: with both sessions seeded from the same shared secret, the peer's
\* n-th send key is our n-th receive key, so decrypt_message accepts the
\* peer's n-th ciphertext when n - 1 were received: it is never rejected
\* as unauthentic.
C4_PeerCiphertextAccepted ==
    \A p \in DOMAIN sessions :
        (/\ last.op = "decrypt_message"
         /\ last.peer = p
         /\ last.wire.intact
         /\ last.wire.k = PeerSendKey(sessions[p], sessions[p].recv_counter))
        => last.err # ErrDecryptionFailed

\* C5: seal/open round trip: when decrypt_message is handed the unmodified
\* bytes that sealing a plaintext under the key it is about to derive
\* gives, it succeeds and returns that plaintext, the empty one included.
C5_RoundTrip ==
    [][\A p \in DOMAIN sessions, nonce \in Nonces, pt \in PlainTexts :
         (/\ last'.op = "decrypt_message"
          /\ last'.peer = p
          /\ last'.wire = Seal(RecvKeyOf(sessions[p]), nonce, pt))
         => (last'.ok /\ last'.text = pt)]_vars

C5_EmptyRoundTripSeen ==
    /\ last.op = "decrypt_message"
    /\ last.ok
    /\ last.text = << >>
    /\ last.wire = Seal(last.wire.k, last.wire.nonce, << >>)
    /\ sessions[last.peer].recv_counter = 1

\* C6: init_session without a local identity fails with
\* "Our keys not initialized", leaves the session table as it was, and
\* has_session(peer) still answers false.
C6_InitWithoutIdentity ==
    [][/\ (last'.op = "init_session" /\ ~identity.some)
          => /\ ~last'.ok
             /\ last'.err = ErrOurKeysNotInitialized
             /\ sessions' = sessions
             /\ last'.peer \notin DOMAIN sessions'
       /\ (last'.op = "has_session" /\ ~identity.some) => ~last'.has]_vars

C6_RefusedWithoutIdentity ==
    /\ last.op = "init_session"
    /\ ~last.ok
    /\ last.err = ErrOurKeysNotInitialized
    /\ ~identity.some
    /\ last.peer \notin DOMAIN sessions

\* C7 as stated: init_session with a signed_prekey that is not 32 bytes
\* long always fails with "Invalid prekey length" and leaves the session
\* table as it was.
C7_BadPrekeyAlwaysInvalidLength ==
    [][(last'.op = "init_session" /\ last'.prekey_len # KeyLen)
       => /\ ~last'.ok
          /\ last'.err = ErrInvalidPrekeyLength
          /\ sessions' = sessions]_vars

\* C7 amended: init_session with a signed_prekey that is not 32 bytes long
\* always fails and leaves the session table as it was, an existing session
\* of that peer included; the error is "Invalid prekey length" when a local
\* identity exists and "Our keys not initialized" when none does.
C7_BadPrekeyRejected ==
    [][(last'.op = "init_session" /\ last'.prekey_len # KeyLen)
       => /\ ~last'.ok
          /\ last'.err = IF identity.some THEN ErrInvalidPrekeyLength
                         ELSE ErrOurKeysNotInitialized
          /\ sessions' = sessions]_vars

C7_ExistingSessionKept ==
    /\ last.op = "init_session"
    /\ last.err = ErrInvalidPrekeyLength
    /\ last.prekey_len # KeyLen
    /\ last.peer \in DOMAIN sessions
    /\ sessions[last.peer].send_counter = 1

\* C8: has_session(id) answers true exactly when an init_session for id
\* has succeeded before: true for the peer of a successful init_session,
\* false for every identifier that never had one.
C8_HasSessionIffInitialised ==
    last.op = "has_session" => (last.has <=> epoch[last.peer] > 0)

C8_OtherPeerAbsent ==
    /\ last.op = "has_session"
    /\ ~last.has
    /\ \E p \in PeerIds : p # last.peer /\ epoch[p] > 0

\* C9: the table holds one session per peer identifier, stored under its
\* own identifier; a successful init_session puts the new session in the
\* peer's slot, replacing what was there, with both counters at 0, and
\* leaves the other peers' sessions alone.
C9_InitReplacesAndResets ==
    [][/\ \A p \in DOMAIN sessions' : sessions'[p].recipient_id = p
       /\ (last'.op = "init_session" /\ last'.ok)
          => LET p == last'.peer
             IN  /\ DOMAIN sessions' = DOMAIN sessions \cup {p}
                 /\ sessions'[p].inst = epoch'[p]
                 /\ epoch'[p] = epoch[p] + 1
                 /\ sessions'[p].send_counter = 0
                 /\ sessions'[p].recv_counter = 0
                 /\ \A q \in DOMAIN sessions \ {p} :
                        sessions'[q] = sessions[q]]_vars

C9_UsedSessionReplaced ==
    /\ last.op = "init_session"
    /\ last.ok
    /\ epoch[last.peer] = 2
    /\ SentOn(last.peer, 1) > 0
    /\ sessions[last.peer].send_counter = 0

\* C10: a successful encrypt_message adds exactly one to the send counter
\* and replaces the send chain key, leaving the receive counter, the
\* receive chain key and the root key as they were; a decrypt_message that
\* got past authentication does the same on the receive side; in
\* particular the first encrypt_message on a new session moves its send
\* counter from 0 to 1.
C10_DeriveFrame ==
    [][\A p \in DOMAIN sessions :
         LET old == sessions[p]
             new == sessions'[p]
         IN  /\ (last'.op = "encrypt_message" /\ last'.ok /\ last'.peer = p)
                => /\ new.send_counter = old.send_counter + 1
                   /\ new.send_chain_key # old.send_chain_key
                   /\ new.recv_counter = old.recv_counter
                   /\ new.recv_chain_key = old.recv_chain_key
                   /\ new.root_key = old.root_key
             /\ (/\ last'.op = "decrypt_message"
                 /\ last'.peer = p
                 /\ (last'.ok \/ last'.err = ErrInvalidUtf8))
                => /\ new.recv_counter = old.recv_counter + 1
                   /\ new.recv_chain_key # old.recv_chain_key
                   /\ new.send_counter = old.send_counter
                   /\ new.send_chain_key = old.send_chain_key
                   /\ new.root_key = old.root_key]_vars

C10_FirstSendAfterReceive ==
    /\ last.op = "encrypt_message"
    /\ last.ok
    /\ sessions[last.peer].send_counter = 1
    /\ sessions[last.peer].recv_counter = 1

\* C11: on one session used by one caller, the message keys of successive
\* encrypt_message calls are pairwise distinct and each call consumed a
\* higher send counter than the calls before it: the n calls completed on
\* the session consumed the counters 0 .. n-1, one each.
C11_SessionKeysDistinct ==
    \A e \in BagToSet(sent) :
        /\ e.counter >= 0
        /\ e.counter < SentOn(e.peer, e.inst)
        /\ \A f \in BagToSet(sent) :
               (f.peer = e.peer /\ f.inst = e.inst /\ f # e)
               => (f.key # e.key /\ f.counter # e.counter)
        /\ CopiesIn(e, sent) = 1

C11_TwoSendsOnOneSession ==
    /\ last.op = "encrypt_message"
    /\ last.ok
    /\ \E e, f \in BagToSet(sent) :
           /\ e.peer = last.peer /\ f.peer = last.peer
           /\ e.inst = f.inst
           /\ e.counter = 0 /\ f.counter = 1
           /\ e.key # f.key

\* C12: decrypt_message on fewer than 28 bytes fails with
\* "Ciphertext too short", with or without a session for the sender, and
\* leaves the session table as it was.
C12_ShortCiphertextRejected ==
    [][(last'.op = "decrypt_message" /\ last'.wire.len < 28)
       => /\ ~last'.ok
          /\ last'.err = ErrCiphertextTooShort
          /\ last'.text = << >>
          /\ sessions' = sessions]_vars

C12_ShortWithSession ==
    /\ last.op = "decrypt_message"
    /\ last.err = ErrCiphertextTooShort
    /\ last.wire.len = 27
    /\ last.peer \in DOMAIN sessions
    /\ \E q \in PeerIds : q \notin DOMAIN sessions

\* C13: decrypt_message on at least 28 bytes that do not authenticate under
\* the next receive key of the sender's session (modified bytes, or another
\* key) fails with "Decryption failed", returns no plaintext and leaves the
\* stored session as it was, receive chain key and receive counter included.
C13_UnauthenticRejected ==
    [][\A p \in DOMAIN sessions :
         (/\ last'.op = "decrypt_message"
          /\ last'.peer = p
          /\ last'.wire.len >= 28
          /\ (~last'.wire.intact \/ last'.wire.k # RecvKeyOf(sessions[p])))
         => /\ ~last'.ok
            /\ last'.err = ErrDecryptionFailed
            /\ last'.text = << >>
            /\ sessions' = sessions]_vars

C13_TamperedRejected ==
    /\ last.op = "decrypt_message"
    /\ last.err = ErrDecryptionFailed
    /\ ~last.wire.intact
    /\ last.wire.k = RecvKeyOf(sessions[last.peer])
    /\ sessions[last.peer].recv_counter = 1

\* C14: encrypt_message, and decrypt_message on at least 28 bytes, for a
\* peer without a session fail with "No session" and create none.
C14_NoSessionRejected ==
    [][(/\ last'.op \in {"encrypt_message", "decrypt_message"}
        /\ last'.peer \notin DOMAIN sessions
        /\ (last'.op = "decrypt_message" => last'.wire.len >= 28))
       => /\ ~last'.ok
          /\ last'.err = ErrNoSession
          /\ sessions' = sessions
          /\ last'.peer \notin DOMAIN sessions']_vars

C14_MissingPeerRefused ==
    /\ last.op = "encrypt_message"
    /\ last.err = ErrNoSession
    /\ last.peer \notin DOMAIN sessions
    /\ DOMAIN sessions # {}

\* C15: get_public_key_bundle fails with "Keys not initialized" as long as
\* generate_identity_keys has never succeeded, and changes no state.
C15_BundleNeedsIdentity ==
    [][(last'.op = "get_public_key_bundle" /\ gen = 0)
       => /\ ~last'.ok
          /\ last'.err = ErrKeysNotInitialized
          /\ UNCHANGED <<identity, sessions, gen, epoch, derived, sent, writer, issued,
                         prekeyVars, syncVars, transportVars, storageVars>>]_vars

C15_BundleRefused ==
    /\ last.op = "get_public_key_bundle"
    /\ ~last.ok
    /\ last.err = ErrKeysNotInitialized
    /\ gen = 0

\* C20: a successful encrypt_message of N plaintext bytes returns N + 28
\* bytes, 12 of nonce followed by N + 16 of AEAD output, so the result is
\* at least 28 bytes long and passes the length check of decrypt_message.
C20_CiphertextLength ==
    (last.op = "encrypt_message" /\ last.ok)
    => /\ last.wire.len = Len(last.wire.p) + 28
       /\ last.wire.len - 12 = Len(last.wire.p) + 16
       /\ last.wire.len >= 28
       /\ ~too_short(last.wire)

C20_EmptyPlaintextSealed ==
    /\ last.op = "encrypt_message"
    /\ last.ok
    /\ last.wire.p = << >>
    /\ last.wire.len = 28

\* C19: with fair scheduling, every call that has started returns: no
\* thread stays inside a call forever, whatever the other thread does.
C19_EveryCallReturns ==
    \A t \in Threads : (thr[t].pc # "idle") ~> (thr[t].pc = "idle")

C19_BothLocksContended ==
    \E a, b \in Threads :
        /\ thr[a].pc = "gen_store"
        /\ thr[b].pc = "init_insert"
        /\ writer = NoThread

\* C16: once generate_identity_keys has returned, get_public_key_bundle
\* succeeds and returns the identity public key, the signed prekey and the
\* signature of the bundle the most recent generate_identity_keys returned,
\* with no one-time prekey.
C16_BundleOfLatestIdentity ==
    (last.op = "get_public_key_bundle" /\ issued # NoBundle)
    => /\ last.ok
       /\ last.bundle.identity_public_key = issued.identity_public_key
       /\ last.bundle.signed_prekey = issued.signed_prekey
       /\ last.bundle.signature = issued.signature
       /\ last.bundle.one_time_prekey = FALSE

C16_SecondIdentityPublished ==
    /\ last.op = "get_public_key_bundle"
    /\ last.ok
    /\ gen = 2
    /\ last.bundle.signed_prekey = X25519PublicKey(FreshPrivate(2))
    /\ issued.signed_prekey # X25519PublicKey(FreshPrivate(1))

\* C17: a session seeded from an identity that generate_identity_keys has
\* since replaced is not reported by has_session and not used by a
\* successful encrypt_message or decrypt_message.
C17_OldSessionsInvalidated ==
    \A p \in DOMAIN sessions :
        (/\ identity.some
         /\ identity.signed_prekey_private \notin sessions[p].root_key.ss
         /\ last.peer = p)
        => /\ ~(last.op = "has_session" /\ last.has)
           /\ ~(last.op \in {"encrypt_message", "decrypt_message"} /\ last.ok)

\* C18: a thread inside encrypt_message or decrypt_message for one peer is
\* never kept from its next step by the write lock of SESSIONS held for a
\* call on another peer.
C18_NoCrossPeerWait ==
    \A a, b \in Threads :
        (/\ a # b
         /\ thr[a].pc \in {"enc_update", "dec_update"}
         /\ writer = b)
        => thr[b].peer = thr[a].peer

\* ---------------------------------------------------------------- C21..C30
\* C21: the advanced counter and chain key are in the session store by the
\* time the derived message key is used: whenever a call has sealed or
\* opened a message with the key of a derivation, the stored session of the
\* peer is the advanced one.
C21_StoreAdvancedByKeyUse ==
    \A t \in Threads :
        LET in_store == get_session_mut(sessions, thr[t].peer)
        IN  /\ thr[t].pc = "enc_update"
               => /\ in_store.send_counter = thr[t].session.send_counter
                  /\ in_store.send_chain_key = thr[t].session.send_chain_key
            /\ thr[t].pc = "dec_update"
               => /\ in_store.recv_counter = thr[t].session.recv_counter
                  /\ in_store.recv_chain_key = thr[t].session.recv_chain_key

\* what the holder of a key can compute when the key-derivation function
\* is one-way: the keys that descend from the one held
Derivable(held, key) ==
    /\ held # NoKey
    /\ held.ss = key.ss
    /\ Len(held.path) <= Len(key.path)
    /\ SubSeq(key.path, 1, Len(held.path)) = held.path

HeldKeys(s) == {s.root_key, s.send_chain_key, s.recv_chain_key}

RECURSIVE AfterRecvs(_, _)
AfterRecvs(session, n) ==
    IF n = 0 THEN session ELSE AfterRecvs(derive_recv_key(session), n - 1)

\* the session s was when it was installed
AsInstalled(s) == Session_new(s.recipient_id, ShareOf(s))

\* chain keys and message keys of the derivations s has behind it
PastChainKeys(s) ==
    {AfterSends(AsInstalled(s), i).send_chain_key : i \in 0..(s.send_counter - 1)}
    \cup {AfterRecvs(AsInstalled(s), i).recv_chain_key : i \in 0..(s.recv_counter - 1)}

PastMessageKeys(s) ==
    {SendKeyOf(AfterSends(AsInstalled(s), i)) : i \in 0..(s.send_counter - 1)}
    \cup {RecvKeyOf(AfterRecvs(AsInstalled(s), i)) : i \in 0..(s.recv_counter - 1)}
    \cup {e.key : e \in {x \in BagToSet(sent) :
                            /\ x.peer = s.recipient_id
                            /\ x.inst = s.inst
                            /\ x.counter < s.send_counter}}

\* the stored sessions and the copies on which a call has derived
HeldSessions ==
    {sessions[p] : p \in DOMAIN sessions}
    \cup {thr[t].session : t \in {u \in Threads :
                                     thr[u].pc \in {"enc_update", "dec_update"}}}

\* C22: forward secrecy of the chain: a session that has n derivations
\* behind it holds none of the chain keys those derivations started from,
\* in no field, and none of the keys it holds (root key, both chain keys)
\* leads, by the one-way derivation, to the message key of a derivation
\* before n.
C22_ForwardSecrecy ==
    \A s \in HeldSessions :
        /\ HeldKeys(s) \cap PastChainKeys(s) = {}
        /\ \A k \in PastMessageKeys(s), h \in HeldKeys(s) : ~Derivable(h, k)

C22_BothChainsAdvanced ==
    \E p \in DOMAIN sessions :
        /\ sessions[p].send_counter = 1
        /\ sessions[p].recv_counter = 1
        /\ PastMessageKeys(sessions[p]) # {}
        /\ thr[1].pc = "idle"

\* C23: a decrypt_message call whose bytes do not authenticate gives the
\* caller the same result, the one "Decryption failed" error value and no
\* plaintext, whether the bytes were sealed under another key than the next
\* receive key or were altered after sealing.
C23_FailureCauseHidden ==
    [][\A p \in DOMAIN sessions :
         LET wrong_key == last'.wire.intact /\ last'.wire.k # RecvKeyOf(sessions[p])
             tampered == ~last'.wire.intact /\ last'.wire.k = RecvKeyOf(sessions[p])
         IN  (/\ last'.op = "decrypt_message"
              /\ last'.peer = p
              /\ last'.wire.len >= MinCiphertextLen
              /\ (wrong_key \/ tampered))
             => [ok |-> last'.ok, err |-> last'.err, text |-> last'.text]
                = [ok |-> FALSE, err |-> ErrDecryptionFailed, text |-> << >>]]_vars

C23_WrongKeyRejected ==
    /\ last.op = "decrypt_message"
    /\ last.err = ErrDecryptionFailed
    /\ last.wire.intact
    /\ last.peer \in DOMAIN sessions
    /\ last.wire.k # RecvKeyOf(sessions[last.peer])
    /\ last.wire.k = PeerSendKey(sessions[last.peer], sessions[last.peer].recv_counter)

\* C24: a generate_prekeys(count) call returns exactly count entries, the
\* j-th with identifier j-1 (so the identifiers are 0..count-1 in order and
\* distinct, and every batch starts at 0 again), each with a 32-byte public
\* and a 32-byte private key, and it leaves every piece of stored state as
\* it was.
C24_PrekeyBatch ==
    [][batches' # batches
       => LET keys == prekeys'.keys
          IN  /\ Len(keys) = prekeys'.count
              /\ \A j \in 1..Len(keys) :
                     /\ keys[j][1] = j - 1
                     /\ keys[j][2].len = 32
                     /\ keys[j][3].len = 32
              /\ \A i, j \in 1..Len(keys) : i # j => keys[i][1] # keys[j][1]
              /\ UNCHANGED <<cryptoVars, syncVars, transportVars, storageVars>>]_vars

C24_SecondBatchFromZero ==
    /\ batches = 2
    /\ prekeys.count = 3
    /\ prekeys.keys[1][1] = 0
    /\ prekeys.keys[3][1] = 2

\* the smallest element of a set of positions, and the n-th smallest
Min(S) == CHOOSE i \in S : \A j \in S : i <= j
Nth(S, n) == CHOOSE i \in S : Cardinality({x \in S : x < i}) = n - 1

\* what a message was queued with: its fields other than attempts
AsQueued(m) ==
    [id |-> m.id, recipient_id |-> m.recipient_id,
     encrypted_content |-> m.encrypted_content, created_at |-> m.created_at]

\* positions of qhistory no clear_queue has named
NotCleared == {i \in 1..Len(qhistory) : ~qhistory[i].cleared}

\* C25: the offline queue is FIFO: queue_message puts the message at the
\* back and makes the queue one longer; get_queued_messages returns the
\* queued messages that were not cleared, each once, in the order they were
\* queued, and leaves the queue as it was.
C25_QueueIsFifo ==
    [][/\ qlast'.op = "queue_message"
          => /\ QUEUE' = QUEUE \o <<qlast'.message>>
             /\ len(QUEUE') = len(QUEUE) + 1
       /\ qlast'.op = "get_queued_messages"
          => /\ QUEUE' = QUEUE
             /\ Len(qlast'.result) = Cardinality(NotCleared)
             /\ \A n \in 1..Len(qlast'.result) :
                    AsQueued(qlast'.result[n])
                    = AsQueued(qhistory[Nth(NotCleared, n)].message)]_vars

C25_MiddleClearedOrderKept ==
    /\ qlast.op = "get_queued_messages"
    /\ Len(qhistory) = 3
    /\ NotCleared = {1, 3}
    /\ Len(qlast.result) = 2
    /\ qlast.result[1].recipient_id # qlast.result[2].recipient_id

\* C26: clear_queue(ids) removes exactly the messages whose id occurs in
\* ids, every one of them, keeps all others in their order with their
\* fields as they were, and returns Ok; when no queued message has an id of
\* ids the queue is unchanged.
C26_ClearRemovesExactlyNamed ==
    [][qlast'.op = "clear_queue"
       => LET ids == qlast'.ids
              Kept == {i \in 1..Len(QUEUE) :
                          \A j \in DOMAIN ids : ids[j] # QUEUE[i].id}
          IN  /\ qlast'.ok
              /\ Len(QUEUE') = Cardinality(Kept)
              /\ \A n \in 1..Len(QUEUE') : QUEUE'[n] = QUEUE[Nth(Kept, n)]
              /\ (Kept = 1..Len(QUEUE) => QUEUE' = QUEUE)]_vars

C26_BothNamedClearedMiddleKept ==
    /\ qlast.op = "clear_queue"
    /\ qlast.ids = <<"m1", "m9">>
    /\ Len(qhistory) = 3
    /\ qhistory[1].message.id = "m1"
    /\ qhistory[2].message.id = "m2"
    /\ qhistory[3].message.id = "m1"
    /\ Len(QUEUE) = 1
    /\ QUEUE[1].id = "m2"
    /\ QUEUE[1].attempts = 1

\* C27: a message from QueuedMessage::new is queued with attempts 0;
\* increment_attempts(id) returns Ok and adds one to the attempts of the
\* first queued message with that id, leaving all other messages, all other
\* fields and the order as they were, and changes nothing when no queued
\* message has the id.
C27_IncrementFirstMatch ==
    [][/\ qlast'.op = "queue_message"
          => /\ qlast'.message.attempts = 0
             /\ QUEUE'[Len(QUEUE')].attempts = 0
       /\ qlast'.op = "increment_attempts"
          => LET M == {i \in 1..Len(QUEUE) : QUEUE[i].id = qlast'.id}
             IN  /\ qlast'.ok
                 /\ IF M = {}
                    THEN QUEUE' = QUEUE
                    ELSE QUEUE' = [QUEUE EXCEPT ![Min(M)].attempts =
                                       QUEUE[Min(M)].attempts + 1]]_vars

C27_EarlierOfTwoIncremented ==
    /\ qlast.op = "increment_attempts"
    /\ \E i, j \in 1..Len(QUEUE) :
           /\ i < j
           /\ QUEUE[i].id = qlast.id
           /\ QUEUE[j].id = qlast.id
           /\ QUEUE[i].attempts = 1
           /\ QUEUE[j].attempts = 0

\* positions of the manager's transports that are Active
ActivePositions ==
    {i \in 1..Len(manager.transports) : manager.transports[i].state = "Active"}

\* C28: the manager's transports stand in the order Cloud, LAN, Bluetooth,
\* Tor; get_best_transport returns the first of them that is Active, none
\* when none is; get_available_transports returns the Active ones in that
\* order and nothing else; and the best transport is the first element of
\* the available ones.
C28_BestIsFirstActive ==
    LET ts == manager.transports
    IN  /\ [i \in 1..Len(ts) |-> ts[i].id] = <<CLOUD, LAN, BLUETOOTH, TOR>>
        /\ tlast.op = "get_best_transport"
           => /\ tlast.best = IF ActivePositions = {} THEN None
                              ELSE Some(ts[Min(ActivePositions)])
              /\ tlast.best = IF filter(ts) = << >> THEN None
                              ELSE Some(filter(ts)[1])
        /\ tlast.op = "get_available_transports"
           => /\ Len(tlast.available) = Cardinality(ActivePositions)
              /\ \A n \in 1..Len(tlast.available) :
                     tlast.available[n] = ts[Nth(ActivePositions, n)]

C28_LanBeforeTor ==
    /\ tlast.op = "get_best_transport"
    /\ tlast.best.some
    /\ tlast.best.value.id = LAN
    /\ manager.transports[1].state = "Enabling"
    /\ manager.transports[4].state = "Active"

\* the latest start or stop on the caller's Cloud transport was a start
CloudStarted ==
    LET C == {i \in 1..Len(tlog) : tlog[i][2] = CLOUD}
    IN  C # {} /\ tlog[CHOOSE i \in C : \A j \in C : j <= i][1] = "start"

\* C29: whatever start and stop calls were made, the LAN, Bluetooth and Tor
\* transports are Disabled, the Cloud transport is Active if its latest
\* start has not been followed by a stop and Disabled otherwise, and a
\* transport is available exactly when its state is Active.
C29_OnlyCloudComesUp ==
    /\ \A id \in {LAN, BLUETOOTH, TOR} : plugin[id].state = "Disabled"
    /\ plugin[CLOUD].state = IF CloudStarted THEN "Active" ELSE "Disabled"
    /\ \A id \in TransportIds :
           is_available(plugin[id]) <=> plugin[id].state = "Active"

C29_LanStartedCloudRestarted ==
    /\ tlog = <<<<"start", LAN>>, <<"stop", CLOUD>>, <<"start", CLOUD>>>>
    /\ is_available(plugin[CLOUD])
    /\ ~is_available(plugin[LAN])

\* C30: the transports of a manager from new() are all Disabled, whatever
\* the caller does; get_best_transport returns none and
\* get_available_transports returns the empty list.
C30_ManagerStaysEmpty ==
    /\ \A i \in 1..Len(manager.transports) :
           manager.transports[i].state = "Disabled"
    /\ Len(manager.transports) = 4
    /\ tlast.op = "get_best_transport" => tlast.best = None
    /\ tlast.op = "get_available_transports" => tlast.available = << >>
    /\ find(manager.transports) = None
    /\ filter(manager.transports) = << >>

C30_NoneWhileOwnCloudActive ==
    /\ tlast.op = "get_best_transport"
    /\ ~tlast.best.some
    /\ plugin[CLOUD].state = "Active"
    /\ Len(tlog) = 3

\* ---------------------------------------------------------------- C31..C40
\* C31: the text conversion of MessageStatus round-trips: from_str of the
\* to_string of each of the five statuses is that status, the five texts are
\* distinct, and so a message read back by get_messages has the status it
\* was stored with.
C31_StatusRoundTrip ==
    /\ \A s \in MessageStatuses : from_str(to_string(s)) = s
    /\ \A a, b \in MessageStatuses : a # b => to_string(a) # to_string(b)
    /\ (slast.op = "get_messages" /\ slast.ok)
       => \A i \in 1..Len(slast.result) :
              /\ slast.result[i].id \in DOMAIN stored
              /\ slast.result[i].status = stored[slast.result[i].id].status

C31_FailedAndSentReadBack ==
    /\ slast.op = "get_messages"
    /\ Len(slast.result) = 2
    /\ slast.result[1].status = "Failed"
    /\ slast.result[2].status = "Sent"

\* the stored messages of a conversation, by the latest store of each id
InConversation(conversation_id) ==
    {stored[id] : id \in {x \in DOMAIN stored :
                             stored[x].conversation_id = conversation_id}}

\* the result get_messages has for a page: offset k * limit
Page(conversation_id, limit, k) ==
    query_map(select_messages(DB.messages, conversation_id, limit, k * limit))

PageIds(conversation_id, limit, k) ==
    {Page(conversation_id, limit, k)[i].id :
        i \in 1..Len(Page(conversation_id, limit, k))}

\* what C32 says of a successful get_messages whatever the limit: the
\* result holds stored messages of the conversation only, each once, newest
\* first, the i-th being one that stands at place offset + i of that order
Paged(most) ==
    LET R == slast.result
        All == InConversation(slast.conversation_id)
        skip == IF slast.offset < 0 THEN 0 ELSE slast.offset
        left == IF Cardinality(All) > skip THEN Cardinality(All) - skip ELSE 0
    IN  /\ \A i \in 1..Len(R) : R[i] \in All
        /\ \A i, j \in 1..Len(R) :
               i < j => R[i].timestamp >= R[j].timestamp /\ R[i].id # R[j].id
        /\ Len(R) = IF left < most THEN left ELSE most
        /\ \A i \in 1..Len(R) :
               /\ Cardinality({m \in All : m.timestamp > R[i].timestamp}) < skip + i
               /\ skip + i <= Cardinality({m \in All : m.timestamp >= R[i].timestamp})

\* pages of a positive limit: disjoint, and together the whole conversation,
\* when its timestamps are distinct
PagesCover ==
    LET c == slast.conversation_id
        All == InConversation(c)
        n == Cardinality(All)
    IN  (/\ slast.limit >= 1
         /\ \A a, b \in All : a # b => a.timestamp # b.timestamp)
        => /\ \A j, k \in 0..n :
                  j # k => PageIds(c, slast.limit, j) \cap PageIds(c, slast.limit, k) = {}
           /\ UNION {PageIds(c, slast.limit, k) : k \in 0..n} = {m.id : m \in All}

\* C32 as stated: get_messages returns only stored messages of the
\* conversation, newest first, skipping the first offset and returning at
\* most limit of them (none for a limit below 0); pages are disjoint and
\* cover the conversation when timestamps are distinct.
C32_AtMostLimit ==
    (slast.op = "get_messages" /\ slast.ok)
    => /\ Paged(IF slast.limit < 0 THEN 0 ELSE slast.limit)
       /\ PagesCover

\* C32, amended: as stated when limit >= 0; a limit below 0 is no limit,
\* every message behind the offset is returned; an offset below 0 skips
\* nothing.
C32_AtMostLimitUnlessNegative ==
    (slast.op = "get_messages" /\ slast.ok)
    => /\ Paged(IF slast.limit < 0
                THEN Cardinality(InConversation(slast.conversation_id))
                ELSE slast.limit)
       /\ PagesCover

C32_SecondPageOfTwo ==
    /\ slast.op = "get_messages"
    /\ slast.ok
    /\ slast.limit = 1
    /\ slast.offset = 1
    /\ Cardinality(InConversation(slast.conversation_id)) = 2
    /\ Len(slast.result) = 1
    /\ slast.result[1].timestamp = 1000
    /\ Cardinality(DOMAIN stored) = 3

\* C33: the write-back that ends a successful decrypt_message leaves the
\* stored send counter and send chain key of the peer as they are, and the
\* write-back that ends a successful encrypt_message leaves the stored
\* receive counter and receive chain key as they are (the stored session
\* being of the install the call read): neither advance undoes the other.
C33_AdvancesIndependent ==
    [][\A t \in Threads :
         LET me == thr[t]
             p == me.peer
         IN  (/\ me.pc \in {"enc_update", "dec_update"}
              /\ thr'[t].pc = "idle"
              /\ last'.ok
              /\ p \in DOMAIN sessions
              /\ sessions[p].inst = me.session.inst)
             => IF me.pc = "dec_update"
                THEN /\ sessions'[p].send_counter = sessions[p].send_counter
                     /\ sessions'[p].send_chain_key = sessions[p].send_chain_key
                ELSE /\ sessions'[p].recv_counter = sessions[p].recv_counter
                     /\ sessions'[p].recv_chain_key = sessions[p].recv_chain_key]_vars

\* C34: when no call is in flight, the session stored for a peer is of the
\* peer's latest install by init_session: a call that read the session before
\* the install has not written the replaced session back over it.
C34_LatestInstallStored ==
    (\A t \in Threads : thr[t].pc = "idle")
    => \A p \in DOMAIN sessions : sessions[p].inst = epoch[p]

\* C35: a decrypt_message whose bytes authenticate under the next receive
\* key but are not valid UTF-8 fails with "Invalid UTF-8" and returns no
\* text, and the stored session of the sender is advanced by one receive
\* derivation all the same (counter and chain key), nothing else of it
\* changed.
C35_InvalidUtf8AfterWriteBack ==
    [][\A p \in DOMAIN sessions :
         (/\ last'.op = "decrypt_message"
          /\ last'.peer = p
          /\ last'.wire.len >= MinCiphertextLen
          /\ last'.wire.intact
          /\ last'.wire.k = RecvKeyOf(sessions[p])
          /\ ~(\A i \in DOMAIN last'.wire.p : last'.wire.p[i] < 128))
         => /\ ~last'.ok
            /\ last'.err = ErrInvalidUtf8
            /\ last'.text = << >>
            /\ sessions'[p].recv_counter = sessions[p].recv_counter + 1
            /\ sessions'[p].recv_chain_key
               = hkdf_expand(sessions[p].recv_counter, sessions[p].recv_chain_key,
                             "chain_key")
            /\ sessions' = [sessions EXCEPT
                   ![p].recv_counter = sessions'[p].recv_counter,
                   ![p].recv_chain_key = sessions'[p].recv_chain_key]]_vars

C35_ErrorWithCounterAdvanced ==
    /\ last.op = "decrypt_message"
    /\ last.err = ErrInvalidUtf8
    /\ last.wire.p = <<255>>
    /\ sessions[last.peer].recv_counter = 2

\* the keys and counters of a session, without the history field
KeysOf(session) == [session EXCEPT !.inst = 0]

\* C36: what an init_session call returns and which session it installs are
\* given by the local signed-prekey private key and the bundle's
\* signed_prekey alone; the bundle's identity key, signature and one-time
\* prekey play no part, so a bundle that does not verify is accepted
C36_OnlySignedPrekeyDecides ==
    [][last'.op = "init_session" =>
          LET bundle == last'.bundle
              peer == last'.peer
              secret == diffie_hellman(identity.signed_prekey_private,
                                       bundle.signed_prekey)
          IN  IF ~identity.some
              THEN /\ ~last'.ok
                   /\ last'.err = ErrOurKeysNotInitialized
                   /\ sessions' = sessions
              ELSE IF bundle.signed_prekey.len # KeyLen
              THEN /\ ~last'.ok
                   /\ last'.err = ErrInvalidPrekeyLength
                   /\ sessions' = sessions
              ELSE /\ last'.ok
                   /\ peer \in DOMAIN sessions'
                   /\ KeysOf(sessions'[peer]) = Session_new(peer, secret)]_vars

\* C36 witness: a bundle under a stranger's identity key, whose signature
\* does not verify and which carries a one-time prekey, installed a session
C36_ForgedBundleAccepted ==
    /\ last.op = "init_session"
    /\ last.ok
    /\ ~Verifies(last.bundle)
    /\ last.bundle.one_time_prekey
    /\ last.bundle.identity_public_key.pk = StrangerPrivate
    /\ last.peer \in DOMAIN sessions
    /\ sessions[last.peer].send_counter = 0

\* C37: the session an init_session call installs and any stored session
\* seeded from the same shared secret (the root key, which no derivation
\* changes, tells) lie on the same chains, whichever peer each is stored
\* for: at the counters the stored one has reached, chain keys and message
\* keys are the same
C37_SameSecretSameKeys ==
    [][(last'.op = "init_session" /\ last'.ok) =>
          LET fresh == sessions'[last'.peer]
          IN  \A q \in DOMAIN sessions :
                  sessions[q].root_key = fresh.root_key =>
                      LET sends == AfterSends(fresh, sessions[q].send_counter)
                          recvs == AfterRecvs(fresh, sessions[q].recv_counter)
                      IN  /\ sends.send_chain_key = sessions[q].send_chain_key
                          /\ recvs.recv_chain_key = sessions[q].recv_chain_key
                          /\ SendKeyOf(sends) = SendKeyOf(sessions[q])
                          /\ RecvKeyOf(recvs) = RecvKeyOf(sessions[q])]_vars

\* C37 witness: a session was installed for one peer while another peer's
\* session, seeded from the same secret, had sent and received
C37_TwoPeersOneSecret ==
    /\ last.op = "init_session"
    /\ last.ok
    /\ \E q \in DOMAIN sessions :
           /\ q # last.peer
           /\ sessions[q].recipient_id # sessions[last.peer].recipient_id
           /\ sessions[q].root_key = sessions[last.peer].root_key
           /\ sessions[q].send_counter = 1
           /\ sessions[q].recv_counter = 1
           /\ sessions[last.peer].send_counter = 0

\* the entry of a peer in the session table, NoSession when there is none
EntryOf(table, peer) == IF peer \in DOMAIN table THEN table[peer] ELSE NoSession

SessionCalls == {"init_session", "encrypt_message", "decrypt_message"}

\* C38: in every step of every interleaving, the session-table entries of
\* all peers other than the one whose init_session, encrypt_message or
\* decrypt_message call returns in the step stay as they are, and a step
\* in which no such call returns changes no entry
C38_OtherEntriesUntouched ==
    [][\A B \in PeerIds :
           (last'.op \in SessionCalls /\ last'.peer = B)
           \/ EntryOf(sessions', B) = EntryOf(sessions, B)]_vars

\* C38 witness: a call for alice wrote her entry while bob's entry, already
\* used once in each direction, was stored
C38_AliceWrittenBobStored ==
    /\ last.op = "encrypt_message"
    /\ last.ok
    /\ last.peer = "alice"
    /\ DOMAIN sessions = {"alice", "bob"}
    /\ sessions["alice"].send_counter = 1
    /\ sessions["bob"].send_counter + sessions["bob"].recv_counter = 1

\* C39: every session in the table is stored under its own recipient_id,
\* and so is every clone a call in flight is about to write back
C39_StoredUnderOwnId ==
    /\ \A k \in DOMAIN sessions : sessions[k].recipient_id = k
    /\ \A t \in Threads :
           thr[t].pc \in {"init_insert", "enc_update", "dec_update"}
               => thr[t].session.recipient_id = thr[t].peer

\* C39 witness: both peers have an entry, alice's has been used, and a
\* decrypt_message call for bob holds a clone it is about to write back
C39_CloneInFlightBesideOther ==
    /\ DOMAIN sessions = {"alice", "bob"}
    /\ sessions["alice"].send_counter = 1
    /\ \E t \in Threads :
           /\ thr[t].pc = "dec_update"
           /\ thr[t].peer = "bob"
           /\ thr[t].session.recv_counter = 1

\* C40: a derivation attempted with the counter at u32::MAX fails loudly
\* and the counter is not set back to 0, for the send counter and for the
\* receive counter
C40_CountersNeverWrap ==
    [][/\ (alast'.op = "derive_send_key" /\ aged.send_counter = u32_MAX)
           => (alast'.panicked /\ aged'.send_counter # u32_ZERO)
       /\ (alast'.op = "derive_recv_key" /\ aged.recv_counter = u32_MAX)
           => (alast'.panicked /\ aged'.recv_counter # u32_ZERO)]_vars

=========================================================================
